---------------------------- MODULE Spec2Model ----------------------------
(***************************************************************************)
(* State-machine model of the interactive core of aws-tui:                 *)
(*   - dynamodb-tui: the control loop (main.rs), the key dispatch          *)
(*     (keyboard.rs) and the application state (app.rs, models.rs);        *)
(*   - ec2-tui: the filterable region selector and resize type selector    *)
(*     (main.rs).                                                          *)
(* Text is modelled as a sequence of one-character strings, Option<T> as a *)
(* sequence of length 0 or 1, Vec<T> as a sequence addressed from 0.       *)
(***************************************************************************)
EXTENDS Integers, Sequences, FiniteSets, TLC

VARIABLES
    app,      \* dynamodb-tui: the App struct (None while ec2-tui runs)
    mgr,      \* dynamodb-tui: AwsManager.region (None while ec2-tui runs)
    ev,       \* backend calls and log entries of the last loop iteration
    key,      \* the key event of the last loop iteration (None on a tick)
    quit,     \* the loop of the running program has ended
    panicked, \* dynamodb-tui: the process has panicked
    ec2,      \* ec2-tui: the App struct (None while dynamodb-tui runs)
    prog      \* which of the two programs this behaviour runs

vars == <<app, mgr, ev, key, quit, panicked, ec2, prog>>

----------------------------------------------------------------------------
(* Option, Vec and text helpers *)

None == <<>>
Some(x) == <<x>>
IsSome(o) == Len(o) = 1
IsNone(o) == Len(o) = 0
Unwrap(o) == o[1]
UnwrapOr(o, d) == IF Len(o) = 1 THEN o[1] ELSE d

\* slice.get(i) on a Vec addressed from 0
Get(v, i) == IF i >= 0 /\ i < Len(v) THEN Some(v[i + 1]) ELSE None

\* Vec::pop / String::pop: drops the last element, a no-op when empty
Pop(s) == IF Len(s) = 0 THEN s ELSE SubSeq(s, 1, Len(s) - 1)

\* Vec::remove(i), i addressed from 0
RemoveAt(v, i) == SubSeq(v, 1, i) \o SubSeq(v, i + 2, Len(v))

\* F applied to the value of x
Then(x, F(_)) == CHOOSE y \in {F(v) : v \in {x}} : TRUE

\* vec![x; n]
Repeat(x, n) == [i \in 1..n |-> x]

\* characters the model types that take more than one byte in UTF-8
TwoByteChars == {"e'"}

\* String::len(): the length in bytes, one per character and one more for
\* each character of two bytes
ByteLen(s) == Len(s) + Cardinality({i \in 1..Len(s) : s[i] \in TwoByteChars})

\* str::contains(pat): pat occurs as a contiguous run of s
Contains(s, pat) ==
    Then(s, LAMBDA text : Then(pat, LAMBDA p :
        \E i \in 0..(Len(text) - Len(p)) : SubSeq(text, i + 1, i + Len(p)) = p))

Digits == <<"0", "1", "2", "3", "4", "5", "6", "7", "8", "9">>
IsAsciiDigit(c) == \E i \in 1..10 : Digits[i] = c

DecimalValue(s) ==
    LET DigitValue(c) == (CHOOSE i \in 1..10 : Digits[i] = c) - 1
        value[i \in 0..Len(s)] ==
            IF i = 0 THEN 0 ELSE value[i - 1] * 10 + DigitValue(s[i])
    IN  value[Len(s)]

\* str::parse::<i64>() on text made of the characters the wizard accepts:
\* Err on empty text and on a non-digit; texts of more than 9 digits are
\* outside the bounds of the model.
ParseI64Len == 9
ParseI64(s) ==
    IF Len(s) = 0 \/ Len(s) > ParseI64Len THEN None
    ELSE IF \E i \in 1..Len(s) : ~IsAsciiDigit(s[i]) THEN None
    ELSE Some(DecimalValue(s))

----------------------------------------------------------------------------
(* app.rs: the region catalog of App::new *)

AvailableRegions ==
    << <<"u","s","-","e","a","s","t","-","1">>,
       <<"u","s","-","e","a","s","t","-","2">>,
       <<"u","s","-","w","e","s","t","-","1">>,
       <<"u","s","-","w","e","s","t","-","2">>,
       <<"a","f","-","s","o","u","t","h","-","1">>,
       <<"a","p","-","e","a","s","t","-","1">>,
       <<"a","p","-","s","o","u","t","h","-","1">>,
       <<"a","p","-","s","o","u","t","h","-","2">>,
       <<"a","p","-","s","o","u","t","h","e","a","s","t","-","1">>,
       <<"a","p","-","s","o","u","t","h","e","a","s","t","-","2">>,
       <<"a","p","-","s","o","u","t","h","e","a","s","t","-","3">>,
       <<"a","p","-","s","o","u","t","h","e","a","s","t","-","4">>,
       <<"a","p","-","n","o","r","t","h","e","a","s","t","-","1">>,
       <<"a","p","-","n","o","r","t","h","e","a","s","t","-","2">>,
       <<"a","p","-","n","o","r","t","h","e","a","s","t","-","3">>,
       <<"c","a","-","c","e","n","t","r","a","l","-","1">>,
       <<"c","a","-","w","e","s","t","-","1">>,
       <<"e","u","-","c","e","n","t","r","a","l","-","1">>,
       <<"e","u","-","c","e","n","t","r","a","l","-","2">>,
       <<"e","u","-","w","e","s","t","-","1">>,
       <<"e","u","-","w","e","s","t","-","2">>,
       <<"e","u","-","w","e","s","t","-","3">>,
       <<"e","u","-","s","o","u","t","h","-","1">>,
       <<"e","u","-","s","o","u","t","h","-","2">>,
       <<"e","u","-","n","o","r","t","h","-","1">>,
       <<"m","e","-","s","o","u","t","h","-","1">>,
       <<"m","e","-","c","e","n","t","r","a","l","-","1">>,
       <<"s","a","-","e","a","s","t","-","1">> >>

----------------------------------------------------------------------------
(* models.rs *)

\* AttributeValue: a tagged value; the payload is text for String and Number,
\* a sequence of bytes for Binary, a boolean for Boolean, and opaque for the
\* variants the editor never looks into.
AttributeValue(tag, val) == [tag |-> tag, val |-> val]

KeySchema(name, key_type) == [name |-> name, key_type |-> key_type]

PaginationNew ==
    [current_page |-> 1, last_evaluated_key |-> None,
     has_more_pages |-> FALSE, items_per_page |-> 50]

----------------------------------------------------------------------------
(* app.rs: WizardState *)

WizardNew ==
    [step |-> "BasicConfig",
     table_name |-> <<>>,
     hash_key_name |-> <<>>,
     hash_key_type |-> "String",
     has_range_key |-> FALSE,
     range_key_name |-> <<>>,
     range_key_type |-> "String",
     billing_mode |-> "OnDemand",
     read_capacity |-> <<"5">>,
     write_capacity |-> <<"5">>,
     current_field |-> "TableName"]

Ok == <<"Ok">>
Err(msg) == <<"Err", msg>>
IsErr(r) == r[1] = "Err"

MinTableNameLen == 3
MaxTableNameLen == 255

\* validate_basic_config without the check of the length
validate_basic_config_no_length(ws) ==
    IF Len(ws.table_name) = 0 THEN Err("Table name is required")
    ELSE IF Len(ws.hash_key_name) = 0 THEN Err("Hash key name is required")
    ELSE IF ws.has_range_key /\ Len(ws.range_key_name) = 0
        THEN Err("Range key name is required when enabled")
    ELSE Ok

validate_basic_config(ws) ==
    IF Len(ws.table_name) = 0 THEN Err("Table name is required")
    ELSE IF ByteLen(ws.table_name) < MinTableNameLen
            \/ ByteLen(ws.table_name) > MaxTableNameLen
        THEN Err("Table name must be 3-255 characters")
    ELSE IF Len(ws.hash_key_name) = 0 THEN Err("Hash key name is required")
    ELSE IF ws.has_range_key /\ Len(ws.range_key_name) = 0
        THEN Err("Range key name is required when enabled")
    ELSE Ok

\* validate_billing_config accepting every capacity text
validate_billing_config_unchecked(ws) == Ok

validate_billing_config(ws) ==
    IF ws.billing_mode = "Provisioned"
    THEN LET read == ParseI64(ws.read_capacity)
             write == ParseI64(ws.write_capacity)
         IN  IF IsNone(read) \/ Unwrap(read) < 1
                 THEN Err("Read capacity must be a positive integer")
             ELSE IF IsNone(write) \/ Unwrap(write) < 1
                 THEN Err("Write capacity must be a positive integer")
             ELSE Ok
    ELSE Ok

to_table_config(ws) ==
    [name |-> ws.table_name,
     hash_key |-> KeySchema(ws.hash_key_name, ws.hash_key_type),
     range_key |-> IF ws.has_range_key
                   THEN Some(KeySchema(ws.range_key_name, ws.range_key_type))
                   ELSE None,
     billing_mode |-> ws.billing_mode,
     read_capacity |-> IF ws.billing_mode = "Provisioned"
                       THEN ParseI64(ws.read_capacity) ELSE None,
     write_capacity |-> IF ws.billing_mode = "Provisioned"
                        THEN ParseI64(ws.write_capacity) ELSE None]

----------------------------------------------------------------------------
(* app.rs: App *)

\* AppState: <<tag>>, or <<"DeleteConfirmation", "Table", name>>,
\* or <<"DeleteConfirmation", "Item">>
RegularTablesView == <<"RegularTablesView">>
TableItemsView == <<"TableItemsView">>
RegionSelector == <<"RegionSelector">>
TableCreationWizard == <<"TableCreationWizard">>
ItemEditor == <<"ItemEditor">>
Help == <<"Help">>
DeleteConfirmationTable(name) == <<"DeleteConfirmation", "Table", name>>
DeleteConfirmationItem == <<"DeleteConfirmation", "Item">>
IsDeleteConfirmation(s) == s[1] = "DeleteConfirmation"

AppNew ==
    [state |-> RegularTablesView,
     table_names |-> <<>>,
     tables |-> <<>>,
     table_state |-> None,
     selected_table_index |-> None,
     current_items |-> <<>>,
     items_table_state |-> None,
     selected_item_index |-> None,
     pagination |-> PaginationNew,
     current_region |-> AvailableRegions[1],
     region_filter |-> <<>>,
     filtered_regions |-> AvailableRegions,
     region_selector_state |-> None,
     wizard_state |-> WizardNew,
     item_editor |-> None,
     is_loading |-> FALSE,
     status_message |-> "",
     pending_save_item |-> FALSE,
     pending_delete_item |-> FALSE,
     pending_delete_table |-> None,
     pending_refresh |-> FALSE]

\* The model threads a machine record m = [app, mgr, ev, quit] through the
\* handlers of one loop iteration.
Log(m, level) ==
    Then(m, LAMBDA v :
        [v EXCEPT !.ev = Append(@, [kind |-> "log", op |-> level, arg |-> <<>>,
                                    loading |-> v.app.is_loading])])

\* a backend call issued through AwsManager, with the loading flag at that moment
Call(m, op, arg) ==
    Then(m, LAMBDA v :
        [v EXCEPT !.ev = Append(@, [kind |-> "call", op |-> op, arg |-> arg,
                                    loading |-> v.app.is_loading])])

selected_table(a) ==
    IF IsNone(a.selected_table_index) THEN None
    ELSE LET slot == Get(a.tables, Unwrap(a.selected_table_index))
         IN  IF IsNone(slot) THEN None ELSE Unwrap(slot)

selected_item(a) ==
    IF IsNone(a.selected_item_index) THEN None
    ELSE Get(a.current_items, Unwrap(a.selected_item_index))

----------------------------------------------------------------------------
(* The backend the AwsManager talks to (aws.rs).  The service is external:  *)
(* the model fixes a small world of tables and records and lets every call  *)
(* succeed or fail.                                                         *)

CallOutcomes == {"Ok", "Err"}

\* list_table_names: Err, or Ok with one of these name lists
ListOutcomes ==
    { <<"Err">>, <<"Ok", <<>>>>, <<"Ok", <<"users">>>>,
      <<"Ok", <<"users", "orders">>>> }

\* aws.rs describe_table: the DynamoTable built for a table of the world.
\* "users" has a hash key, "orders" a hash key and a range key, and "audit",
\* the only table of another account, a hash key named "new_attribute".
TableDetail(name, region) ==
    [name |-> name,
     hash_key |-> IF name = "orders" THEN KeySchema(<<"p">>, "String")
                  ELSE IF name = "audit"
                  THEN KeySchema(<<"n","e","w","_","a","t","t","r","i","b","u","t","e">>,
                                 "String")
                  ELSE KeySchema(<<"i","d">>, "String"),
     range_key |-> IF name = "orders" THEN Some(KeySchema(<<"a">>, "Number"))
                   ELSE None,
     billing_mode |-> IF name = "orders" THEN "Provisioned" ELSE "OnDemand",
     region |-> region]

\* aws.rs scan_table builds a DynamoItem from the attribute mapping of a
\* returned record; records without the hash key are filtered out there.
DynamoItem(attributes, table) ==
    [attributes |-> attributes,
     hash_key_value |-> attributes[table.hash_key.name],
     range_key_value |->
        IF IsSome(table.range_key)
              /\ Unwrap(table.range_key).name \in DOMAIN attributes
        THEN Some(attributes[Unwrap(table.range_key).name]) ELSE None]

\* scan_table: Err, an empty page, a last page, or a page with a continuation token
ScanOutcomes == {"Err", "Empty", "Last", "More"}

\* the records of the page a scan of a table of the world returns ("audit"
\* holds no records)
ScanRecords(table_name, outcome) ==
    LET user1 == (<<"i","d">> :> AttributeValue("String", <<"1">>))
                    @@ (<<"a">> :> AttributeValue("Binary", <<79>>))
        user2 == (<<"i","d">> :> AttributeValue("String", <<"2">>))
                    @@ (<<"o","k">> :> AttributeValue("Boolean", TRUE))
        order1 == (<<"p">> :> AttributeValue("String", <<"x">>))
                    @@ (<<"a">> :> AttributeValue("Number", <<"7">>))
                    @@ (<<"n">> :> AttributeValue("StringSet", <<"y">>))
    IN  IF outcome = "Empty" \/ table_name = "audit" THEN <<>>
        ELSE IF table_name = "orders" THEN <<order1>>
        ELSE IF outcome = "Last" THEN <<user1>>
        ELSE <<user1, user2>>

ScanResult(table_name, outcome, region) ==
    [items |-> [i \in 1..Len(ScanRecords(table_name, outcome)) |->
                  DynamoItem(ScanRecords(table_name, outcome)[i],
                             TableDetail(table_name, region))],
     last_key |-> IF outcome = "More" THEN Some("token") ELSE None]

----------------------------------------------------------------------------
(* main.rs: the backend operations of the orchestration loop *)

\* load_tables keeping the details already loaded, position by position
load_tables_keep_details(m, out) ==
    LET m1 == Log(m, "Info")
        m2 == Call([m1 EXCEPT !.app.is_loading = TRUE], "list", <<>>)
        m3 == IF out[1] = "Ok"
              THEN LET names == out[2]
                   IN  [Log(m2, "Info") EXCEPT
                          !.app.table_names = names,
                          !.app.tables = [i \in 1..Len(names) |->
                                            IF i <= Len(@) THEN @[i] ELSE None],
                          !.app.selected_table_index =
                              IF Len(names) > 0 THEN Some(0) ELSE None,
                          !.app.table_state =
                              IF Len(names) > 0 THEN Some(0) ELSE None]
              ELSE [Log(m2, "Error") EXCEPT
                          !.app.table_names = <<>>,
                          !.app.tables = <<>>]
    IN  [m3 EXCEPT !.app.is_loading = FALSE]

load_tables(m, out) ==
    LET m1 == Log(m, "Info")
        m2 == Call([m1 EXCEPT !.app.is_loading = TRUE], "list", <<>>)
        m3 == IF out[1] = "Ok"
              THEN LET names == out[2]
                   IN  [Log(m2, "Info") EXCEPT
                          !.app.table_names = names,
                          !.app.tables = Repeat(None, Len(names)),
                          !.app.selected_table_index =
                              IF Len(names) > 0 THEN Some(0) ELSE None,
                          !.app.table_state =
                              IF Len(names) > 0 THEN Some(0) ELSE None]
              ELSE [Log(m2, "Error") EXCEPT
                          !.app.table_names = <<>>,
                          !.app.tables = <<>>]
    IN  [m3 EXCEPT !.app.is_loading = FALSE]

load_table_details(m, table_name, index, out) ==
    Then(Call(m, "describe", table_name), LAMBDA m1 :
        IF out = "Ok"
        THEN IF index < Len(m1.app.tables)
             THEN [m1 EXCEPT !.app.tables[index + 1] =
                                Some(TableDetail(table_name, m1.mgr))]
             ELSE m1
        ELSE Log(m1, "Warning"))

load_items(m, table_name, out) ==
    Then(Log(m, "Info"), LAMBDA m0 :
        LET m1 == Call(m0, "scan",
                       <<table_name, m0.app.pagination.items_per_page,
                         m0.app.pagination.last_evaluated_key>>)
        IN  IF out # "Err"
            THEN Then(ScanResult(table_name, out, m0.mgr), LAMBDA res :
                    [Log(m1, "Info") EXCEPT
                       !.app.current_items = res.items,
                       !.app.pagination.last_evaluated_key = res.last_key,
                       !.app.pagination.has_more_pages = IsSome(res.last_key),
                       !.app.selected_item_index =
                           IF Len(res.items) > 0 THEN Some(0) ELSE @,
                       !.app.items_table_state =
                           IF Len(res.items) > 0 THEN Some(0) ELSE @])
            ELSE [Log(m1, "Error") EXCEPT !.app.current_items = <<>>])

\* delete_table staying in the confirmation when the call fails
delete_table_stay_on_error(m, table_name, r) ==
    LET m1 == Call([Log(m, "Info") EXCEPT !.app.is_loading = TRUE],
                   "delete_table", table_name)
        m2 == IF r.del_table = "Ok"
              THEN load_tables([Log(m1, "Info") EXCEPT
                                  !.app.state = RegularTablesView], r.list)
              ELSE Log(m1, "Error")
    IN  [m2 EXCEPT !.app.is_loading = FALSE]

delete_table(m, table_name, r) ==
    LET m1 == Call([Log(m, "Info") EXCEPT !.app.is_loading = TRUE],
                   "delete_table", table_name)
        m2 == IF r.del_table = "Ok"
              THEN load_tables([Log(m1, "Info") EXCEPT
                                  !.app.state = RegularTablesView], r.list)
              ELSE [Log(m1, "Error") EXCEPT !.app.state = RegularTablesView]
    IN  [m2 EXCEPT !.app.is_loading = FALSE]

----------------------------------------------------------------------------
(* app.rs: App methods *)

\* byte order of the characters the model uses (str::cmp compares bytes)
CharOrder ==
    << " ", "-", ".", "0", "1", "2", "3", "4", "5", "6", "7", "8", "9",
       "A", "B", "C", "D", "E", "F", "G", "H", "I", "J", "K", "L", "M",
       "N", "O", "P", "Q", "R", "S", "T", "U", "V", "W", "X", "Y", "Z",
       "[", "]", "^", "_",
       "a", "b", "c", "d", "e", "f", "g", "h", "i", "j", "k", "l", "m",
       "n", "o", "p", "q", "r", "s", "t", "u", "v", "w", "x", "y", "z",
       "e'" >>

\* String::cmp(a, b) = Less
StrLess(a, b) ==
    LET CharCode(c) == CHOOSE i \in 1..Len(CharOrder) : CharOrder[i] = c
    IN  \E i \in 1..Len(b) :
        /\ \A j \in 1..(i - 1) : j <= Len(a) /\ a[j] = b[j]
        /\ \/ i = Len(a) + 1
           \/ i <= Len(a) /\ CharCode(a[i]) < CharCode(b[i])

\* the key test of the item editor and of start_edit_item's comparator
is_key(name, hash_key_schema, range_key_schema) ==
    \/ name = hash_key_schema.name
    \/ (IsSome(range_key_schema) /\ name = Unwrap(range_key_schema).name)

\* start_edit_item's comparator: keys first, then by name
AttrLess(x, y, table) ==
    LET x_is_key == is_key(x, table.hash_key, table.range_key)
        y_is_key == is_key(y, table.hash_key, table.range_key)
    IN  IF x_is_key /\ ~y_is_key THEN TRUE
        ELSE IF ~x_is_key /\ y_is_key THEN FALSE
        ELSE StrLess(x, y)

\* the names of a mapping in the order sort_by leaves them
RECURSIVE SortNames(_, _)
SortNames(names, table) ==
    IF names = {} THEN <<>>
    ELSE LET first == CHOOSE x \in names :
                          \A y \in names \ {x} : AttrLess(x, y, table)
         IN  <<first>> \o SortNames(names \ {first}, table)

update_region_filter(a, filter) ==
    LET filtered == SelectSeq(AvailableRegions,
                              LAMBDA r : Len(filter) = 0 \/ Contains(r, filter))
    IN  [a EXCEPT !.region_filter = filter,
                  !.filtered_regions = filtered,
                  !.region_selector_state =
                      IF Len(filtered) > 0 THEN Some(0) ELSE @]

enter_items_view(a) ==
    [a EXCEPT !.state = TableItemsView,
              !.current_items = <<>>,
              !.items_table_state = Some(0),
              !.selected_item_index = Some(0),
              !.pagination = PaginationNew]

exit_items_view(a) ==
    [a EXCEPT !.state = RegularTablesView,
              !.current_items = <<>>,
              !.pagination = PaginationNew]

\* start_create_item seeding the hash key row only
start_create_item_hash_only(a, table) ==
    [a EXCEPT
       !.item_editor = Some(
          [mode |-> "Create",
           table_name |-> table.name,
           hash_key_schema |-> table.hash_key,
           range_key_schema |-> table.range_key,
           attributes |-> <<  <<table.hash_key.name, AttributeValue("String", <<>>)>>  >>,
           selected_attribute_index |-> 0,
           editing_field |-> None,
           input_buffer |-> <<>>]),
       !.state = ItemEditor]

start_create_item(a, table) ==
    [a EXCEPT
       !.item_editor = Some(
          [mode |-> "Create",
           table_name |-> table.name,
           hash_key_schema |-> table.hash_key,
           range_key_schema |-> table.range_key,
           attributes |->
              <<  <<table.hash_key.name, AttributeValue("String", <<>>)>>  >>
              \o (IF IsSome(table.range_key)
                  THEN << <<Unwrap(table.range_key).name, AttributeValue("String", <<>>)>> >>
                  ELSE <<>>),
           selected_attribute_index |-> 0,
           editing_field |-> None,
           input_buffer |-> <<>>]),
       !.state = ItemEditor]

start_edit_item(a, table, item) ==
    LET order == SortNames(DOMAIN item.attributes, table)
    IN  [a EXCEPT
           !.item_editor = Some(
              [mode |-> "Edit",
               table_name |-> table.name,
               hash_key_schema |-> table.hash_key,
               range_key_schema |-> table.range_key,
               attributes |-> [i \in 1..Len(order) |->
                                 <<order[i], item.attributes[order[i]]>>],
               selected_attribute_index |-> 0,
               editing_field |-> None,
               input_buffer |-> <<>>]),
           !.state = ItemEditor]

exit_item_editor(a) ==
    [a EXCEPT !.item_editor = None, !.state = TableItemsView]

----------------------------------------------------------------------------
(* main.rs: save_item and delete_item *)

\* Iterator::collect into a HashMap: one entry per name, the last row of a name wins
CollectMap(attributes) ==
    [n \in {attributes[i][1] : i \in 1..Len(attributes)} |->
        attributes[CHOOSE i \in 1..Len(attributes) :
                      /\ attributes[i][1] = n
                      /\ \A j \in (i + 1)..Len(attributes) : attributes[j][1] # n][2]]

save_item(m, r) ==
    IF IsSome(m.app.item_editor)
    THEN LET editor == Unwrap(m.app.item_editor)
             m1 == Call(Log(m, "Info"), "put",
                        <<editor.table_name, CollectMap(editor.attributes)>>)
         IN  IF r.put = "Ok"
             THEN load_items([Log(m1, "Info") EXCEPT
                                !.app = exit_item_editor(@)],
                             editor.table_name, r.scan)
             ELSE Log(m1, "Error")
    ELSE m

delete_item(m, r) ==
    IF IsSome(selected_table(m.app)) /\ IsSome(selected_item(m.app))
    THEN LET table == Unwrap(selected_table(m.app))
             item == Unwrap(selected_item(m.app))
             keymap == (table.hash_key.name :> item.hash_key_value)
                       @@ (IF IsSome(table.range_key) /\ IsSome(item.range_key_value)
                           THEN Unwrap(table.range_key).name
                                    :> Unwrap(item.range_key_value)
                           ELSE <<>>)
             m1 == Call(Log(m, "Info"), "delete_item", <<table.name, keymap>>)
         IN  IF r.del_item = "Ok"
             THEN load_items([Log(m1, "Info") EXCEPT
                                !.app.state = TableItemsView],
                             table.name, r.scan)
             ELSE [Log(m1, "Error") EXCEPT !.app.state = TableItemsView]
    ELSE m

----------------------------------------------------------------------------
(* keyboard.rs: key events *)

\* KeyEvent: code, the character of a Char code, and the modifiers held
KeyChar(c) == [code |-> "Char", ch |-> c, mods |-> {}]
KeyCtrl(c) == [code |-> "Char", ch |-> c, mods |-> {"CONTROL"}]
KeyCode(code) == [code |-> code, ch |-> "", mods |-> {}]
IsChar(k, c) == k.code = "Char" /\ k.ch = c
IsCtrlChar(k, c) == k.code = "Char" /\ k.ch = c /\ "CONTROL" \in k.mods

----------------------------------------------------------------------------
(* keyboard.rs: handle_tables_view_keys, handle_items_view_keys *)

\* Up in a wrapping list of n > 0 rows
WrapUp(selected, n) ==
    LET current == UnwrapOr(selected, 0)
    IN  IF current > 0 THEN current - 1 ELSE n - 1

\* Down in a wrapping list of n > 0 rows
WrapDown(selected, n) ==
    LET current == UnwrapOr(selected, 0)
    IN  IF current < n - 1 THEN current + 1 ELSE 0

\* handle_tables_view_keys with 'c' opening the wizard as it was left
handle_tables_view_keys_keep_wizard(m, k) ==
    LET a == m.app
    IN  IF IsChar(k, "q") THEN [m EXCEPT !.quit = TRUE]
        ELSE IF IsChar(k, "?") THEN [m EXCEPT !.app.state = Help]
        ELSE IF IsChar(k, "g")
            THEN [m EXCEPT !.app = update_region_filter(
                                      [a EXCEPT !.state = RegionSelector,
                                                !.region_filter = <<>>], <<>>)]
        ELSE IF IsChar(k, "r") THEN [m EXCEPT !.app.pending_refresh = TRUE]
        ELSE IF IsChar(k, "c")
            THEN [m EXCEPT !.app.state = TableCreationWizard]
        ELSE IF IsChar(k, "d")
            THEN IF IsSome(selected_table(a))
                 THEN [m EXCEPT !.app.state =
                          DeleteConfirmationTable(Unwrap(selected_table(a)).name)]
                 ELSE m
        ELSE IF k.code = "Up"
            THEN IF Len(a.table_names) > 0
                 THEN LET new_index == WrapUp(a.selected_table_index, Len(a.table_names))
                      IN  [m EXCEPT !.app.selected_table_index = Some(new_index),
                                    !.app.table_state = Some(new_index)]
                 ELSE m
        ELSE IF k.code = "Down"
            THEN IF Len(a.table_names) > 0
                 THEN LET new_index == WrapDown(a.selected_table_index, Len(a.table_names))
                      IN  [m EXCEPT !.app.selected_table_index = Some(new_index),
                                    !.app.table_state = Some(new_index)]
                 ELSE m
        ELSE IF k.code = "Enter"
            THEN IF IsSome(selected_table(a))
                 THEN [m EXCEPT !.app = enter_items_view(a)]
                 ELSE m
        ELSE m

\* handle_tables_view_keys with Enter opening the items view of a table whose
\* detail is not loaded
handle_tables_view_keys_enter_unchecked(m, k) ==
    LET a == m.app
    IN  IF IsChar(k, "q") THEN [m EXCEPT !.quit = TRUE]
        ELSE IF IsChar(k, "?") THEN [m EXCEPT !.app.state = Help]
        ELSE IF IsChar(k, "g")
            THEN [m EXCEPT !.app = update_region_filter(
                                      [a EXCEPT !.state = RegionSelector,
                                                !.region_filter = <<>>], <<>>)]
        ELSE IF IsChar(k, "r") THEN [m EXCEPT !.app.pending_refresh = TRUE]
        ELSE IF IsChar(k, "c")
            THEN [m EXCEPT !.app.wizard_state = WizardNew,
                           !.app.state = TableCreationWizard]
        ELSE IF IsChar(k, "d")
            THEN IF IsSome(selected_table(a))
                 THEN [m EXCEPT !.app.state =
                          DeleteConfirmationTable(Unwrap(selected_table(a)).name)]
                 ELSE m
        ELSE IF k.code = "Up"
            THEN IF Len(a.table_names) > 0
                 THEN LET new_index == WrapUp(a.selected_table_index, Len(a.table_names))
                      IN  [m EXCEPT !.app.selected_table_index = Some(new_index),
                                    !.app.table_state = Some(new_index)]
                 ELSE m
        ELSE IF k.code = "Down"
            THEN IF Len(a.table_names) > 0
                 THEN LET new_index == WrapDown(a.selected_table_index, Len(a.table_names))
                      IN  [m EXCEPT !.app.selected_table_index = Some(new_index),
                                    !.app.table_state = Some(new_index)]
                 ELSE m
        ELSE IF k.code = "Enter"
            THEN [m EXCEPT !.app = enter_items_view(a)]
        ELSE m

handle_tables_view_keys(m, k) ==
    LET a == m.app
    IN  IF IsChar(k, "q") THEN [m EXCEPT !.quit = TRUE]
        ELSE IF IsChar(k, "?") THEN [m EXCEPT !.app.state = Help]
        ELSE IF IsChar(k, "g")
            THEN [m EXCEPT !.app = update_region_filter(
                                      [a EXCEPT !.state = RegionSelector,
                                                !.region_filter = <<>>], <<>>)]
        ELSE IF IsChar(k, "r") THEN [m EXCEPT !.app.pending_refresh = TRUE]
        ELSE IF IsChar(k, "c")
            THEN [m EXCEPT !.app.wizard_state = WizardNew,
                           !.app.state = TableCreationWizard]
        ELSE IF IsChar(k, "d")
            THEN IF IsSome(selected_table(a))
                 THEN [m EXCEPT !.app.state =
                          DeleteConfirmationTable(Unwrap(selected_table(a)).name)]
                 ELSE m
        ELSE IF k.code = "Up"
            THEN IF Len(a.table_names) > 0
                 THEN LET new_index == WrapUp(a.selected_table_index, Len(a.table_names))
                      IN  [m EXCEPT !.app.selected_table_index = Some(new_index),
                                    !.app.table_state = Some(new_index)]
                 ELSE m
        ELSE IF k.code = "Down"
            THEN IF Len(a.table_names) > 0
                 THEN LET new_index == WrapDown(a.selected_table_index, Len(a.table_names))
                      IN  [m EXCEPT !.app.selected_table_index = Some(new_index),
                                    !.app.table_state = Some(new_index)]
                 ELSE m
        ELSE IF k.code = "Enter"
            THEN IF IsSome(selected_table(a))
                 THEN [m EXCEPT !.app = enter_items_view(a)]
                 ELSE m
        ELSE m

handle_items_view_keys(m, k) ==
    LET a == m.app
    IN  IF k.code = "Esc" THEN [m EXCEPT !.app = exit_items_view(a)]
        ELSE IF IsChar(k, "i")
            THEN IF IsSome(selected_table(a))
                 THEN [m EXCEPT !.app = start_create_item(a, Unwrap(selected_table(a)))]
                 ELSE m
        ELSE IF IsChar(k, "e") \/ k.code = "Enter"
            THEN IF IsSome(selected_table(a)) /\ IsSome(selected_item(a))
                 THEN [m EXCEPT !.app = start_edit_item(a, Unwrap(selected_table(a)),
                                                        Unwrap(selected_item(a)))]
                 ELSE m
        ELSE IF IsChar(k, "d")
            THEN IF IsSome(selected_item(a))
                 THEN [m EXCEPT !.app.state = DeleteConfirmationItem]
                 ELSE m
        ELSE IF k.code = "Up"
            THEN IF Len(a.current_items) > 0
                 THEN LET new_index == WrapUp(a.selected_item_index, Len(a.current_items))
                      IN  [m EXCEPT !.app.selected_item_index = Some(new_index),
                                    !.app.items_table_state = Some(new_index)]
                 ELSE m
        ELSE IF k.code = "Down"
            THEN IF Len(a.current_items) > 0
                 THEN LET new_index == WrapDown(a.selected_item_index, Len(a.current_items))
                      IN  [m EXCEPT !.app.selected_item_index = Some(new_index),
                                    !.app.items_table_state = Some(new_index)]
                 ELSE m
        ELSE m

----------------------------------------------------------------------------
(* keyboard.rs: handle_region_selector_keys *)

handle_region_selector_keys(m, k) ==
    LET a == m.app
    IN  IF k.code = "Esc" THEN [m EXCEPT !.app.state = RegularTablesView]
        ELSE IF k.code = "Enter"
            THEN IF IsSome(a.region_selector_state)
                    /\ IsSome(Get(a.filtered_regions, Unwrap(a.region_selector_state)))
                 THEN [m EXCEPT
                         !.app.current_region =
                             Unwrap(Get(a.filtered_regions,
                                        Unwrap(a.region_selector_state))),
                         !.app.state = RegularTablesView]
                 ELSE m
        ELSE IF k.code = "Up"
            THEN IF Len(a.filtered_regions) > 0
                 THEN [m EXCEPT !.app.region_selector_state =
                          Some(WrapUp(a.region_selector_state, Len(a.filtered_regions)))]
                 ELSE m
        ELSE IF k.code = "Down"
            THEN IF Len(a.filtered_regions) > 0
                 THEN [m EXCEPT !.app.region_selector_state =
                          Some(WrapDown(a.region_selector_state, Len(a.filtered_regions)))]
                 ELSE m
        ELSE IF k.code = "Char"
            THEN [m EXCEPT !.app = update_region_filter(a, Append(a.region_filter, k.ch))]
        ELSE IF k.code = "Backspace"
            THEN [m EXCEPT !.app = update_region_filter(a, Pop(a.region_filter))]
        ELSE m

----------------------------------------------------------------------------
(* keyboard.rs: handle_wizard_keys *)

TextFields == {"TableName", "HashKeyName", "RangeKeyName", "ReadCapacity", "WriteCapacity"}

handle_wizard_tab(ws) ==
    IF ws.step = "BasicConfig"
    THEN [ws EXCEPT !.current_field =
            CASE @ = "TableName" -> "HashKeyName"
              [] @ = "HashKeyName" -> "HashKeyType"
              [] @ = "HashKeyType" -> "HasRangeKey"
              [] @ = "HasRangeKey" ->
                    IF ws.has_range_key THEN "RangeKeyName" ELSE "TableName"
              [] @ = "RangeKeyName" -> "RangeKeyType"
              [] @ = "RangeKeyType" -> "TableName"
              [] OTHER -> "TableName"]
    ELSE IF ws.step = "BillingConfig"
    THEN [ws EXCEPT !.current_field =
            CASE @ = "BillingMode" ->
                    IF ws.billing_mode = "Provisioned" THEN "ReadCapacity"
                    ELSE "BillingMode"
              [] @ = "ReadCapacity" -> "WriteCapacity"
              [] @ = "WriteCapacity" -> "BillingMode"
              [] OTHER -> "BillingMode"]
    ELSE ws

\* the single-key selector of the two key type fields
SelectType(c, current) ==
    IF c \in {"s", "S"} THEN "String"
    ELSE IF c \in {"n", "N"} THEN "Number"
    ELSE IF c \in {"b", "B"} THEN "Binary"
    ELSE current

handle_wizard_char_input(ws, c) ==
    CASE ws.current_field = "TableName" -> [ws EXCEPT !.table_name = Append(@, c)]
      [] ws.current_field = "HashKeyName" -> [ws EXCEPT !.hash_key_name = Append(@, c)]
      [] ws.current_field = "HashKeyType" -> [ws EXCEPT !.hash_key_type = SelectType(c, @)]
      [] ws.current_field = "HasRangeKey" ->
            IF c \in {" ", "x", "X"} THEN [ws EXCEPT !.has_range_key = ~@] ELSE ws
      [] ws.current_field = "RangeKeyName" -> [ws EXCEPT !.range_key_name = Append(@, c)]
      [] ws.current_field = "RangeKeyType" -> [ws EXCEPT !.range_key_type = SelectType(c, @)]
      [] ws.current_field = "BillingMode" ->
            IF c \in {"o", "O", "1"} THEN [ws EXCEPT !.billing_mode = "OnDemand"]
            ELSE IF c \in {"p", "P", "2"} THEN [ws EXCEPT !.billing_mode = "Provisioned"]
            ELSE ws
      [] ws.current_field = "ReadCapacity" ->
            IF IsAsciiDigit(c) THEN [ws EXCEPT !.read_capacity = Append(@, c)] ELSE ws
      [] ws.current_field = "WriteCapacity" ->
            IF IsAsciiDigit(c) THEN [ws EXCEPT !.write_capacity = Append(@, c)] ELSE ws

\* handle_wizard_backspace deleting from the table name whatever the field is
handle_wizard_backspace_table_name(ws) ==
    [ws EXCEPT !.table_name = Pop(@)]

handle_wizard_backspace(ws) ==
    CASE ws.current_field = "TableName" -> [ws EXCEPT !.table_name = Pop(@)]
      [] ws.current_field = "HashKeyName" -> [ws EXCEPT !.hash_key_name = Pop(@)]
      [] ws.current_field = "RangeKeyName" -> [ws EXCEPT !.range_key_name = Pop(@)]
      [] ws.current_field = "ReadCapacity" -> [ws EXCEPT !.read_capacity = Pop(@)]
      [] ws.current_field = "WriteCapacity" -> [ws EXCEPT !.write_capacity = Pop(@)]
      [] OTHER -> ws

\* the Enter arm of handle_wizard_keys
handle_wizard_enter(a) ==
    LET ws == a.wizard_state
    IN  IF ws.step = "BasicConfig"
        THEN IF IsErr(validate_basic_config(ws))
             THEN [a EXCEPT !.status_message = validate_basic_config(ws)[2]]
             ELSE [a EXCEPT !.wizard_state.step = "BillingConfig"]
        ELSE IF ws.step = "BillingConfig"
        THEN IF IsErr(validate_billing_config(ws))
             THEN [a EXCEPT !.status_message = validate_billing_config(ws)[2]]
             ELSE [a EXCEPT !.wizard_state.step = "Review"]
        ELSE a

handle_wizard_keys(m, k) ==
    LET a == m.app
        ws == a.wizard_state
    IN  IF k.code = "Esc" THEN [m EXCEPT !.app.state = RegularTablesView]
        ELSE IF k.code = "Enter" THEN [m EXCEPT !.app = handle_wizard_enter(a)]
        ELSE IF k.code = "Tab" THEN [m EXCEPT !.app.wizard_state = handle_wizard_tab(ws)]
        ELSE IF k.code = "Char"
            THEN [m EXCEPT !.app.wizard_state = handle_wizard_char_input(ws, k.ch)]
        ELSE IF k.code = "Backspace"
            THEN IF ws.current_field \in TextFields
                 THEN [m EXCEPT !.app.wizard_state = handle_wizard_backspace(ws)]
                 ELSE IF k.mods = {}
                 THEN IF ws.step = "BillingConfig"
                      THEN [m EXCEPT !.app.wizard_state.step = "BasicConfig"]
                      ELSE IF ws.step = "Review"
                      THEN [m EXCEPT !.app.wizard_state.step = "BillingConfig"]
                      ELSE m
                 ELSE m
        ELSE m

----------------------------------------------------------------------------
(* keyboard.rs: handle_item_editor_keys, handle_attribute_editing *)

\* char::to_lowercase on the characters the model uses
ToLowerChar(c) ==
    LET UpperCase ==
            << "A", "B", "C", "D", "E", "F", "G", "H", "I", "J", "K", "L", "M",
               "N", "O", "P", "Q", "R", "S", "T", "U", "V", "W", "X", "Y", "Z" >>
        LowerCase ==
            << "a", "b", "c", "d", "e", "f", "g", "h", "i", "j", "k", "l", "m",
               "n", "o", "p", "q", "r", "s", "t", "u", "v", "w", "x", "y", "z" >>
    IN  IF \E i \in 1..26 : UpperCase[i] = c
        THEN LowerCase[CHOOSE i \in 1..26 : UpperCase[i] = c]
        ELSE c

\* str::to_lowercase
ToLower(s) == [i \in 1..Len(s) |-> ToLowerChar(s[i])]

\* str::trim: strips the white space at both ends
Trim(s) ==
    LET kept == {i \in 1..Len(s) : s[i] # " "}
    IN  IF kept = {} THEN <<>>
        ELSE SubSeq(s, CHOOSE i \in kept : \A j \in kept : i <= j,
                       CHOOSE i \in kept : \A j \in kept : i >= j)

HexDigits ==
    << "0", "1", "2", "3", "4", "5", "6", "7", "8", "9",
       "a", "b", "c", "d", "e", "f" >>
IsHexDigit(c) == \E i \in 1..16 : HexDigits[i] = ToLowerChar(c)
HexDigitValue(c) == (CHOOSE i \in 1..16 : HexDigits[i] = ToLowerChar(c)) - 1

\* FormatHex writing the low digit of a byte before the high one
FormatHex_low_digit_first(bytes) ==
    [i \in 1..(2 * Len(bytes)) |->
        IF i % 2 = 1 THEN HexDigits[(bytes[(i + 1) \div 2] % 16) + 1]
        ELSE HexDigits[(bytes[i \div 2] \div 16) + 1]]

\* bytes.iter().map(|byte| format!("{:02x}", byte)).collect::<String>()
FormatHex(bytes) ==
    LET FormatHexByte(byte) ==      \* format!("{:02x}", byte)
            << HexDigits[(byte \div 16) + 1], HexDigits[(byte % 16) + 1] >>
    IN  [i \in 1..(2 * Len(bytes)) |->
            FormatHexByte(bytes[(i + 1) \div 2])[IF i % 2 = 1 THEN 1 ELSE 2]]

\* u8::from_str_radix(src, 16) on a slice of two bytes: a leading '+' is
\* accepted as a sign, every other character has to be a hex digit
U8FromStrRadix16(src) ==
    LET digits == IF Len(src) > 1 /\ src[1] = "+" THEN Tail(src) ELSE src
    IN  IF Len(src) = 0 THEN None
        ELSE IF Len(src) = 1 /\ src[1] \in {"+", "-"} THEN None
        ELSE IF \E i \in 1..Len(digits) : ~IsHexDigit(digits[i]) THEN None
        ELSE IF Len(digits) = 1 THEN Some(HexDigitValue(digits[1]))
        ELSE Some(HexDigitValue(digits[1]) * 16 + HexDigitValue(digits[2]))

\* the byte offset at which character j (from 1) of s starts
ByteOffset(s, j) == ByteLen(SubSeq(s, 1, j - 1))

\* byte offset i is a character boundary of s (str::is_char_boundary)
IsCharBoundary(s, i) == \E j \in 1..(Len(s) + 1) : ByteOffset(s, j) = i

\* &s[lo..hi] for character boundaries lo <= hi
ByteSlice(s, lo, hi) ==
    LET first == CHOOSE j \in 1..(Len(s) + 1) : ByteOffset(s, j) = lo
        last == CHOOSE j \in 1..(Len(s) + 1) : ByteOffset(s, j) = hi
    IN  SubSeq(s, first, last - 1)

\* The loop `for i in (0..hex_str.len()).step_by(2)` over the trimmed buffer:
\* every offset i with i + 1 < len is sliced as &hex_str[i..i + 2], which
\* panics off a character boundary, and the slices that parse are collected.
ParseHex(input_buffer) ==
    Then(Trim(input_buffer), LAMBDA hex_str :
        LET count == ByteLen(hex_str) \div 2
            panic == \E j \in 1..count :
                        \/ ~IsCharBoundary(hex_str, 2 * (j - 1))
                        \/ ~IsCharBoundary(hex_str, 2 * j)
            parsed == SelectSeq(
                         [j \in 1..count |->
                             U8FromStrRadix16(ByteSlice(hex_str, 2 * (j - 1), 2 * j))],
                         LAMBDA byte : IsSome(byte))
        IN  [panic |-> panic,
             bytes |-> IF panic THEN <<>>
                       ELSE [j \in 1..Len(parsed) |-> Unwrap(parsed[j])]])

NewAttribute == <<"n", "e", "w", "_", "a", "t", "t", "r", "i", "b", "u", "t", "e">>

\* the value Enter stores for the Value field, by the tag of the current value
CommitValue(current_value, input_buffer) ==
    CASE current_value.tag = "String" -> AttributeValue("String", input_buffer)
      [] current_value.tag = "Number" -> AttributeValue("Number", input_buffer)
      [] current_value.tag = "Boolean" ->
            AttributeValue("Boolean", ToLower(input_buffer)
                               \in {<<"t", "r", "u", "e">>, <<"1">>, <<"y", "e", "s">>})
      [] current_value.tag = "Binary" -> AttributeValue("Binary", ParseHex(input_buffer).bytes)
      [] OTHER -> AttributeValue("String", input_buffer)

\* the text Enter puts in the input buffer when a value edit starts
DisplayValue(value) ==
    CASE value.tag \in {"String", "Number"} -> value.val
      [] value.tag = "Boolean" -> IF value.val THEN <<"t", "r", "u", "e">>
                                   ELSE <<"f", "a", "l", "s", "e">>
      [] value.tag = "Binary" -> FormatHex(value.val)
      [] OTHER -> <<>>

\* CycleType clearing the text of a String as well
CycleType_clearing(value) ==
    CASE value.tag = "String" -> AttributeValue("Number", <<>>)
      [] value.tag = "Number" -> AttributeValue("Binary", <<>>)
      [] value.tag = "Binary" -> AttributeValue("String", <<>>)
      [] OTHER -> AttributeValue("String", <<>>)

\* Ctrl+T: the value the type cycle gives a row
CycleType(value) ==
    CASE value.tag = "String" -> AttributeValue("Number", value.val)
      [] value.tag = "Number" -> AttributeValue("Binary", <<>>)
      [] value.tag = "Binary" -> AttributeValue("String", <<>>)
      [] OTHER -> AttributeValue("String", <<>>)

\* The arms of handle_item_editor_keys that work on the editor while no field
\* is being edited.  Each of Ctrl+T, Ctrl+D and Ctrl+K tests the selected row
\* against the key schema itself.

\* KeyCode::Up
move_up(e) ==
    IF e.selected_attribute_index > 0
    THEN [e EXCEPT !.selected_attribute_index = @ - 1]
    ELSE e

\* move_down with the bound off by one
move_down_past_end(e) ==
    IF e.selected_attribute_index <= Len(e.attributes)
    THEN [e EXCEPT !.selected_attribute_index = @ + 1]
    ELSE e

\* KeyCode::Down
move_down(e) ==
    IF e.selected_attribute_index < Len(e.attributes)
    THEN [e EXCEPT !.selected_attribute_index = @ + 1]
    ELSE e

\* Ctrl+N
add_attribute(e) ==
    [e EXCEPT !.attributes = Append(@, <<NewAttribute, AttributeValue("String", <<>>)>>),
              !.selected_attribute_index = Len(e.attributes)]

\* Ctrl+T
cycle_type(e) ==
    LET idx == e.selected_attribute_index
    IN  IF idx < Len(e.attributes)
        THEN LET key_name == e.attributes[idx + 1][1]
                 is_hash_key == key_name = e.hash_key_schema.name
                 is_range_key == IF IsSome(e.range_key_schema)
                                 THEN key_name = Unwrap(e.range_key_schema).name
                                 ELSE FALSE
             IN  IF ~is_hash_key /\ ~is_range_key
                 THEN [e EXCEPT !.attributes[idx + 1] = <<@[1], CycleType(@[2])>>]
                 ELSE e
        ELSE e

\* delete_attribute testing the hash key only
delete_attribute_hash_only(e) ==
    LET idx == e.selected_attribute_index
    IN  IF idx < Len(e.attributes)
        THEN IF e.attributes[idx + 1][1] # e.hash_key_schema.name
             THEN LET attributes == RemoveAt(e.attributes, idx)
                  IN  [e EXCEPT
                         !.attributes = attributes,
                         !.selected_attribute_index =
                             IF idx >= Len(attributes) /\ Len(attributes) > 0
                             THEN Len(attributes) - 1 ELSE idx]
             ELSE e
        ELSE e

\* Ctrl+D
delete_attribute(e) ==
    LET idx == e.selected_attribute_index
    IN  IF idx < Len(e.attributes)
        THEN LET key_name == e.attributes[idx + 1][1]
                 is_hash_key == key_name = e.hash_key_schema.name
                 is_range_key == IF IsSome(e.range_key_schema)
                                 THEN key_name = Unwrap(e.range_key_schema).name
                                 ELSE FALSE
             IN  IF ~is_hash_key /\ ~is_range_key
                 THEN LET attributes == RemoveAt(e.attributes, idx)
                      IN  [e EXCEPT
                             !.attributes = attributes,
                             !.selected_attribute_index =
                                 IF idx >= Len(attributes) /\ Len(attributes) > 0
                                 THEN Len(attributes) - 1 ELSE idx]
                 ELSE e
        ELSE e

\* Enter
start_value_edit(e) ==
    IF e.selected_attribute_index < Len(e.attributes)
    THEN [e EXCEPT
            !.input_buffer =
                DisplayValue(e.attributes[e.selected_attribute_index + 1][2]),
            !.editing_field = Some("Value")]
    ELSE e

\* Ctrl+K
start_key_edit(e) ==
    LET idx == e.selected_attribute_index
    IN  IF idx < Len(e.attributes)
        THEN LET key_name == e.attributes[idx + 1][1]
                 is_hash_key == key_name = e.hash_key_schema.name
                 is_range_key == IF IsSome(e.range_key_schema)
                                 THEN key_name = Unwrap(e.range_key_schema).name
                                 ELSE FALSE
             IN  IF ~is_hash_key /\ ~is_range_key
                 THEN [e EXCEPT !.input_buffer = key_name,
                                !.editing_field = Some("Key")]
                 ELSE e
        ELSE e

editor_navigation(e, k) ==
    IF k.code = "Up" THEN move_up(e)
    ELSE IF k.code = "Down" THEN move_down(e)
    ELSE IF IsCtrlChar(k, "n") THEN add_attribute(e)
    ELSE IF IsCtrlChar(k, "t") THEN cycle_type(e)
    ELSE IF IsCtrlChar(k, "d") THEN delete_attribute(e)
    ELSE IF k.code = "Enter" THEN start_value_edit(e)
    ELSE IF IsCtrlChar(k, "k") THEN start_key_edit(e)
    ELSE e

\* editing_enter storing the empty String with a new name
editing_enter_key_clears_value(e, field) ==
    LET idx == e.selected_attribute_index
        done == [e EXCEPT !.editing_field = None, !.input_buffer = <<>>]
    IN  IF idx < Len(e.attributes)
        THEN IF field = "Value"
             THEN [done EXCEPT !.attributes[idx + 1] =
                                  <<@[1], CommitValue(@[2], e.input_buffer)>>]
             ELSE IF field = "Key"
             THEN [done EXCEPT !.attributes[idx + 1] =
                                  <<e.input_buffer, AttributeValue("String", <<>>)>>]
             ELSE done
        ELSE done

\* the Enter arm of handle_attribute_editing
editing_enter(e, field) ==
    LET idx == e.selected_attribute_index
        done == [e EXCEPT !.editing_field = None, !.input_buffer = <<>>]
    IN  IF idx < Len(e.attributes)
        THEN IF field = "Value"
             THEN [done EXCEPT !.attributes[idx + 1] =
                                  <<@[1], CommitValue(@[2], e.input_buffer)>>]
             ELSE IF field = "Key"
             THEN [done EXCEPT !.attributes[idx + 1] = <<e.input_buffer, @[2]>>]
             ELSE done
        ELSE done

editing_enter_panics(e, field) ==
    /\ e.selected_attribute_index < Len(e.attributes)
    /\ field = "Value"
    /\ e.attributes[e.selected_attribute_index + 1][2].tag = "Binary"
    /\ ParseHex(e.input_buffer).panic

\* handle_attribute_editing with Esc storing the buffer as Enter does
handle_attribute_editing_esc_commits(m, k, field) ==
    LET e == Unwrap(m.app.item_editor)
    IN  IF k.code = "Esc"
            THEN [m EXCEPT !.app.item_editor = Some(editing_enter(e, field))]
        ELSE IF k.code = "Enter"
            THEN IF editing_enter_panics(e, field)
                 THEN [m EXCEPT !.panicked = TRUE]
                 ELSE [m EXCEPT !.app.item_editor = Some(editing_enter(e, field))]
        ELSE IF k.code = "Char"
            THEN [m EXCEPT !.app.item_editor =
                              Some([e EXCEPT !.input_buffer = Append(@, k.ch)])]
        ELSE IF k.code = "Backspace"
            THEN [m EXCEPT !.app.item_editor =
                              Some([e EXCEPT !.input_buffer = Pop(@)])]
        ELSE m

handle_attribute_editing(m, k, field) ==
    LET e == Unwrap(m.app.item_editor)
    IN  IF k.code = "Esc"
            THEN [m EXCEPT !.app.item_editor =
                              Some([e EXCEPT !.editing_field = None,
                                             !.input_buffer = <<>>])]
        ELSE IF k.code = "Enter"
            THEN IF editing_enter_panics(e, field)
                 THEN [m EXCEPT !.panicked = TRUE]
                 ELSE [m EXCEPT !.app.item_editor = Some(editing_enter(e, field))]
        ELSE IF k.code = "Char"
            THEN [m EXCEPT !.app.item_editor =
                              Some([e EXCEPT !.input_buffer = Append(@, k.ch)])]
        ELSE IF k.code = "Backspace"
            THEN [m EXCEPT !.app.item_editor =
                              Some([e EXCEPT !.input_buffer = Pop(@)])]
        ELSE m

handle_item_editor_keys(m, k) ==
    IF IsSome(m.app.item_editor) /\ IsSome(Unwrap(m.app.item_editor).editing_field)
    THEN handle_attribute_editing(m, k, Unwrap(Unwrap(m.app.item_editor).editing_field))
    ELSE IF k.code = "Esc" THEN [m EXCEPT !.app = exit_item_editor(@)]
    ELSE IF IsCtrlChar(k, "s") THEN [m EXCEPT !.app.pending_save_item = TRUE]
    ELSE IF IsSome(m.app.item_editor)
    THEN [m EXCEPT !.app.item_editor =
                      Some(editor_navigation(Unwrap(m.app.item_editor), k))]
    ELSE m

----------------------------------------------------------------------------
(* keyboard.rs: handle_delete_confirmation_keys, handle_key_event *)

\* handle_delete_confirmation_keys with the confirmation of a record's
\* deletion returning to the items view at once
handle_delete_confirmation_keys_confirm_leaves(m, k) ==
    LET s == m.app.state
    IN  IF IsChar(k, "y") \/ IsChar(k, "Y")
            THEN IF s[2] = "Table"
                 THEN [m EXCEPT !.app.pending_delete_table = Some(s[3])]
                 ELSE [m EXCEPT !.app.pending_delete_item = TRUE,
                                !.app.state = TableItemsView]
        ELSE IF IsChar(k, "n") \/ IsChar(k, "N") \/ k.code = "Esc"
            THEN IF s[2] = "Table"
                 THEN [m EXCEPT !.app.state = RegularTablesView]
                 ELSE [m EXCEPT !.app.state = TableItemsView]
        ELSE m

\* handle_delete_confirmation_keys with every denial going to the tables view
handle_delete_confirmation_keys_deny_to_tables(m, k) ==
    LET s == m.app.state
    IN  IF IsChar(k, "y") \/ IsChar(k, "Y")
            THEN IF s[2] = "Table"
                 THEN [m EXCEPT !.app.pending_delete_table = Some(s[3])]
                 ELSE [m EXCEPT !.app.pending_delete_item = TRUE]
        ELSE IF IsChar(k, "n") \/ IsChar(k, "N") \/ k.code = "Esc"
            THEN [m EXCEPT !.app.state = RegularTablesView]
        ELSE m

handle_delete_confirmation_keys(m, k) ==
    LET s == m.app.state
    IN  IF IsChar(k, "y") \/ IsChar(k, "Y")
            THEN IF s[2] = "Table"
                 THEN [m EXCEPT !.app.pending_delete_table = Some(s[3])]
                 ELSE [m EXCEPT !.app.pending_delete_item = TRUE]
        ELSE IF IsChar(k, "n") \/ IsChar(k, "N") \/ k.code = "Esc"
            THEN IF s[2] = "Table"
                 THEN [m EXCEPT !.app.state = RegularTablesView]
                 ELSE [m EXCEPT !.app.state = TableItemsView]
        ELSE m

handle_key_event(m, k) ==
    CASE m.app.state = RegularTablesView -> handle_tables_view_keys(m, k)
      [] m.app.state = TableItemsView -> handle_items_view_keys(m, k)
      [] m.app.state = RegionSelector -> handle_region_selector_keys(m, k)
      [] m.app.state = TableCreationWizard -> handle_wizard_keys(m, k)
      [] m.app.state = ItemEditor -> handle_item_editor_keys(m, k)
      [] IsDeleteConfirmation(m.app.state) -> handle_delete_confirmation_keys(m, k)
      [] m.app.state = Help -> [m EXCEPT !.app.state = RegularTablesView]

----------------------------------------------------------------------------
(* main.rs: run_app, one iteration of the loop *)

\* the match on app.state that follows handle_key_event
post_dispatch(m, r) ==
    LET a == m.app
    IN  IF a.state = RegularTablesView
        THEN Then(IF a.pending_refresh
                  THEN load_tables(Log([m EXCEPT !.app.pending_refresh = FALSE],
                                       "Info"), r.list)
                  ELSE m,
                  LAMBDA m1 :
                 IF m1.mgr # m1.app.current_region
                 THEN \* switch_region always returns Ok
                      LET m2 == [Log(m1, "Info") EXCEPT !.app.is_loading = TRUE]
                          m3 == Call(m2, "switch_region", m1.app.current_region)
                          m4 == load_tables([m3 EXCEPT !.mgr = m1.app.current_region],
                                            r.list2)
                      IN  [m4 EXCEPT !.app.is_loading = FALSE]
                 ELSE m1)
        ELSE IF a.state = TableItemsView
        THEN IF Len(a.current_items) = 0 /\ ~a.is_loading /\ IsSome(selected_table(a))
             THEN LET m1 == load_items([m EXCEPT !.app.is_loading = TRUE],
                                       Unwrap(selected_table(a)).name, r.scan)
                  IN  [m1 EXCEPT !.app.is_loading = FALSE]
             ELSE m
        ELSE IF a.state = TableCreationWizard
        THEN IF a.wizard_state.step = "Review"
             THEN LET m1 == Call([Log(m, "Info") EXCEPT !.app.is_loading = TRUE],
                                 "create_table", to_table_config(a.wizard_state))
                      m2 == IF r.create = "Ok"
                            THEN load_tables([Log(m1, "Info") EXCEPT
                                                !.app.state = RegularTablesView],
                                             r.list)
                            ELSE [Log(m1, "Error") EXCEPT
                                                !.app.state = RegularTablesView]
                  IN  [m2 EXCEPT !.app.is_loading = FALSE]
             ELSE m
        ELSE IF a.state = ItemEditor
        THEN IF a.pending_save_item
             THEN save_item([m EXCEPT !.app.pending_save_item = FALSE], r)
             ELSE m
        ELSE IF IsDeleteConfirmation(a.state)
        THEN Then(IF a.pending_delete_item
                  THEN delete_item([m EXCEPT !.app.pending_delete_item = FALSE], r)
                  ELSE m,
                  LAMBDA m1 :
                 IF IsSome(m1.app.pending_delete_table)
                 THEN delete_table([m1 EXCEPT !.app.pending_delete_table = None],
                                   Unwrap(m1.app.pending_delete_table), r)
                 ELSE m1)
        ELSE m

\* "Load table details on demand", at the end of every iteration
load_details_on_demand(m, r) ==
    LET a == m.app
    IN  IF IsSome(a.selected_table_index)
           /\ Get(a.tables, Unwrap(a.selected_table_index)) = Some(None)
           /\ IsSome(Get(a.table_names, Unwrap(a.selected_table_index)))
        THEN load_table_details(m, a.table_names[Unwrap(a.selected_table_index) + 1],
                                Unwrap(a.selected_table_index), r.desc)
        ELSE m

\* the machine an iteration starts from
Machine ==
    [app |-> app, mgr |-> mgr, ev |-> <<>>, quit |-> FALSE, panicked |-> FALSE]

\* an iteration in which event::poll delivered the key event k
iterate_key(m, k, r) ==
    Then(handle_key_event(m, k), LAMBDA m1 :
        IF m1.quit \/ m1.panicked THEN m1
        ELSE Then(post_dispatch(m1, r), LAMBDA m2 : load_details_on_demand(m2, r)))

\* an iteration in which event::poll timed out
iterate_idle(m, r) == load_details_on_demand(m, r)

\* main: App::new, AwsManager::new and the initial load_tables
Startup(out) ==
    load_tables([app |-> AppNew, mgr |-> AppNew.current_region, ev |-> <<>>,
                 quit |-> FALSE, panicked |-> FALSE], out)

----------------------------------------------------------------------------
(* The loop iterations as actions.  The environment chooses the key event   *)
(* and the outcome of every backend call the iteration issues.              *)

\* Bounds on what the operator types: the input buffer of the item editor is
\* edited (a character typed, a character deleted) only while it holds at
\* most MaxBuf characters, and Ctrl+N is pressed only while the attribute
\* sequence has fewer than MaxAttrs rows.
MaxBuf == 1
MaxAttrs == 2

\* The filter text of a selector is extended only while it holds fewer than
\* MaxFilter characters.
MaxFilter == 3

\* The selection of the resize type selector is moved down only from the
\* first MaxScroll positions and from the last one, and up only from the
\* first MaxScroll + 1 positions.
MaxScroll == 8

AllOk ==
    [list |-> <<"Ok", <<"users", "orders">>>>, list2 |-> <<"Ok", <<"users", "orders">>>>,
     desc |-> "Ok", scan |-> "Last", create |-> "Ok", put |-> "Ok",
     del_item |-> "Ok", del_table |-> "Ok"]

\* the backend operations an iteration issued
Ops(m) ==
    Then(m.ev, LAMBDA e : {e[i].op : i \in {j \in 1..Len(e) : e[j].kind = "call"}})

\* The outcomes the environment chooses among for an iteration that issues
\* the operations ops when every call succeeds (a failing call is never
\* followed by more calls than a succeeding one).
OutcomesFor(ops) ==
    [list : IF "list" \in ops THEN ListOutcomes ELSE {AllOk.list},
     list2 : IF "switch_region" \in ops THEN ListOutcomes ELSE {AllOk.list2},
     desc : IF "describe" \in ops THEN CallOutcomes ELSE {AllOk.desc},
     scan : IF "scan" \in ops THEN ScanOutcomes ELSE {AllOk.scan},
     create : IF "create_table" \in ops THEN CallOutcomes ELSE {AllOk.create},
     put : IF "put" \in ops THEN CallOutcomes ELSE {AllOk.put},
     del_item : IF "delete_item" \in ops THEN CallOutcomes ELSE {AllOk.del_item},
     del_table : IF "delete_table" \in ops THEN CallOutcomes ELSE {AllOk.del_table}]

\* A sub-edit takes Char(c) whatever the modifiers, so a chord types its
\* letter there; these are the chords the operator presses during a sub-edit.
SubEditChords == {"a"}

\* what the operator is allowed to type in the current state
Typable(k) ==
    IF app.state = ItemEditor /\ IsSome(app.item_editor)
    THEN LET e == Unwrap(app.item_editor)
         IN  /\ (k.code = "Char" /\ IsSome(e.editing_field))
                    => Len(e.input_buffer) < MaxBuf
             /\ (k.code = "Char" /\ IsSome(e.editing_field) /\ k.mods # {})
                    => k.ch \in SubEditChords
             /\ (k.code = "Backspace" /\ IsSome(e.editing_field))
                    => Len(e.input_buffer) <= MaxBuf
             /\ (IsCtrlChar(k, "n") /\ IsNone(e.editing_field))
                    => Len(e.attributes) < MaxAttrs
    ELSE IF app.state = TableCreationWizard
    THEN LET ws == app.wizard_state
             text == CASE ws.current_field = "TableName" -> ws.table_name
                       [] ws.current_field = "HashKeyName" -> ws.hash_key_name
                       [] ws.current_field = "RangeKeyName" -> ws.range_key_name
                       [] ws.current_field = "ReadCapacity" -> ws.read_capacity
                       [] ws.current_field = "WriteCapacity" -> ws.write_capacity
                       [] OTHER -> <<>>
         IN  /\ k.code = "Char" => Len(text) < MaxBuf
             /\ (k.code = "Backspace" /\ ws.current_field \in TextFields)
                    => Len(text) <= MaxBuf
             \* the operator goes back a step only before changing the billing
             /\ (k.code = "Backspace" /\ ws.current_field \notin TextFields)
                    => /\ ws.billing_mode = WizardNew.billing_mode
                       /\ ws.read_capacity = WizardNew.read_capacity
                       /\ ws.write_capacity = WizardNew.write_capacity
    ELSE IF app.state = RegionSelector
    THEN k.code = "Char" => Len(app.region_filter) < MaxFilter
    ELSE TRUE

\* an iteration in which event::poll delivered the key event k
Step(k) ==
    /\ prog = "dynamodb-tui"
    /\ ~quit /\ ~panicked
    /\ Typable(k)
    /\ \E ok \in {iterate_key(Machine, k, AllOk)} :
       \E r \in OutcomesFor(Ops(ok)) :
       \E m \in {IF r = AllOk THEN ok ELSE iterate_key(Machine, k, r)} :
              /\ app' = m.app
              /\ mgr' = m.mgr
              /\ ev' = m.ev
              /\ quit' = m.quit
              /\ panicked' = m.panicked
    /\ key' = Some(k)
    /\ UNCHANGED <<ec2, prog>>

\* an iteration without a key event
Tick ==
    /\ prog = "dynamodb-tui"
    /\ ~quit /\ ~panicked
    /\ \E ok \in {iterate_idle(Machine, AllOk)} :
       \E r \in OutcomesFor(Ops(ok)) :
       \E m \in {IF r = AllOk THEN ok ELSE iterate_idle(Machine, r)} :
              /\ app' = m.app
              /\ mgr' = m.mgr
              /\ ev' = m.ev
    /\ key' = None
    /\ UNCHANGED <<quit, panicked, ec2, prog>>

\* a key event dispatched to handle_tables_view_keys
TablesViewKey(K) == app.state = RegularTablesView /\ \E k \in K : Step(k)

\* a key event dispatched to handle_items_view_keys
ItemsViewKey(K) == app.state = TableItemsView /\ \E k \in K : Step(k)

\* a key event dispatched to handle_item_editor_keys
ItemEditorKey(K) == app.state = ItemEditor /\ \E k \in K : Step(k)

EditorKeys ==
    {KeyCode(c) : c \in {"Esc", "Enter", "Up", "Down", "Backspace"}}
    \cup {KeyCtrl(c) : c \in {"n", "t", "d", "k"} \cup SubEditChords}
    \cup {KeyChar("a")}

----------------------------------------------------------------------------
(* ec2-tui (main.rs): the App struct with its filterable selectors, and the *)
(* key dispatch of the main loop.                                           *)

\* App::new: the regions vector
Ec2Regions ==
    << <<"u","s","-","e","a","s","t","-","1">>,
       <<"u","s","-","e","a","s","t","-","2">>,
       <<"u","s","-","w","e","s","t","-","1">>,
       <<"u","s","-","w","e","s","t","-","2">>,
       <<"a","f","-","s","o","u","t","h","-","1">>,
       <<"a","p","-","e","a","s","t","-","1">>,
       <<"a","p","-","s","o","u","t","h","-","1">>,
       <<"a","p","-","s","o","u","t","h","-","2">>,
       <<"a","p","-","s","o","u","t","h","e","a","s","t","-","1">>,
       <<"a","p","-","s","o","u","t","h","e","a","s","t","-","2">>,
       <<"a","p","-","s","o","u","t","h","e","a","s","t","-","3">>,
       <<"a","p","-","s","o","u","t","h","e","a","s","t","-","4">>,
       <<"a","p","-","n","o","r","t","h","e","a","s","t","-","1">>,
       <<"a","p","-","n","o","r","t","h","e","a","s","t","-","2">>,
       <<"a","p","-","n","o","r","t","h","e","a","s","t","-","3">>,
       <<"c","a","-","c","e","n","t","r","a","l","-","1">>,
       <<"c","a","-","w","e","s","t","-","1">>,
       <<"e","u","-","c","e","n","t","r","a","l","-","1">>,
       <<"e","u","-","c","e","n","t","r","a","l","-","2">>,
       <<"e","u","-","w","e","s","t","-","1">>,
       <<"e","u","-","w","e","s","t","-","2">>,
       <<"e","u","-","w","e","s","t","-","3">>,
       <<"e","u","-","s","o","u","t","h","-","1">>,
       <<"e","u","-","s","o","u","t","h","-","2">>,
       <<"e","u","-","n","o","r","t","h","-","1">>,
       <<"i","l","-","c","e","n","t","r","a","l","-","1">>,
       <<"m","e","-","s","o","u","t","h","-","1">>,
       <<"m","e","-","c","e","n","t","r","a","l","-","1">>,
       <<"s","a","-","e","a","s","t","-","1">> >>

\* App::new: the resize_instance_types vector
ResizeInstanceTypes ==
    << <<"t","1",".","m","i","c","r","o">>,
       <<"t","2",".","n","a","n","o">>,
       <<"t","2",".","m","i","c","r","o">>,
       <<"t","2",".","s","m","a","l","l">>,
       <<"t","2",".","m","e","d","i","u","m">>,
       <<"t","2",".","l","a","r","g","e">>,
       <<"t","2",".","x","l","a","r","g","e">>,
       <<"t","2",".","2","x","l","a","r","g","e">>,
       <<"t","3",".","n","a","n","o">>,
       <<"t","3",".","m","i","c","r","o">>,
       <<"t","3",".","s","m","a","l","l">>,
       <<"t","3",".","m","e","d","i","u","m">>,
       <<"t","3",".","l","a","r","g","e">>,
       <<"t","3",".","x","l","a","r","g","e">>,
       <<"t","3",".","2","x","l","a","r","g","e">>,
       <<"t","3","a",".","n","a","n","o">>,
       <<"t","3","a",".","m","i","c","r","o">>,
       <<"t","3","a",".","s","m","a","l","l">>,
       <<"t","3","a",".","m","e","d","i","u","m">>,
       <<"t","3","a",".","l","a","r","g","e">>,
       <<"t","3","a",".","x","l","a","r","g","e">>,
       <<"t","3","a",".","2","x","l","a","r","g","e">>,
       <<"t","4","g",".","n","a","n","o">>,
       <<"t","4","g",".","m","i","c","r","o">>,
       <<"t","4","g",".","s","m","a","l","l">>,
       <<"t","4","g",".","m","e","d","i","u","m">>,
       <<"t","4","g",".","l","a","r","g","e">>,
       <<"t","4","g",".","x","l","a","r","g","e">>,
       <<"t","4","g",".","2","x","l","a","r","g","e">>,
       <<"m","1",".","s","m","a","l","l">>,
       <<"m","1",".","m","e","d","i","u","m">>,
       <<"m","1",".","l","a","r","g","e">>,
       <<"m","1",".","x","l","a","r","g","e">>,
       <<"m","2",".","x","l","a","r","g","e">>,
       <<"m","2",".","2","x","l","a","r","g","e">>,
       <<"m","2",".","4","x","l","a","r","g","e">>,
       <<"m","3",".","m","e","d","i","u","m">>,
       <<"m","3",".","l","a","r","g","e">>,
       <<"m","3",".","x","l","a","r","g","e">>,
       <<"m","3",".","2","x","l","a","r","g","e">>,
       <<"m","4",".","l","a","r","g","e">>,
       <<"m","4",".","x","l","a","r","g","e">>,
       <<"m","4",".","2","x","l","a","r","g","e">>,
       <<"m","4",".","4","x","l","a","r","g","e">>,
       <<"m","4",".","1","0","x","l","a","r","g","e">>,
       <<"m","4",".","1","6","x","l","a","r","g","e">>,
       <<"m","5",".","l","a","r","g","e">>,
       <<"m","5",".","x","l","a","r","g","e">>,
       <<"m","5",".","2","x","l","a","r","g","e">>,
       <<"m","5",".","4","x","l","a","r","g","e">>,
       <<"m","5",".","8","x","l","a","r","g","e">>,
       <<"m","5",".","1","2","x","l","a","r","g","e">>,
       <<"m","5",".","1","6","x","l","a","r","g","e">>,
       <<"m","5",".","2","4","x","l","a","r","g","e">>,
       <<"m","5",".","m","e","t","a","l">>,
       <<"m","5","a",".","l","a","r","g","e">>,
       <<"m","5","a",".","x","l","a","r","g","e">>,
       <<"m","5","a",".","2","x","l","a","r","g","e">>,
       <<"m","5","a",".","4","x","l","a","r","g","e">>,
       <<"m","5","a",".","8","x","l","a","r","g","e">>,
       <<"m","5","a",".","1","2","x","l","a","r","g","e">>,
       <<"m","5","a",".","1","6","x","l","a","r","g","e">>,
       <<"m","5","a",".","2","4","x","l","a","r","g","e">>,
       <<"m","5","a","d",".","l","a","r","g","e">>,
       <<"m","5","a","d",".","x","l","a","r","g","e">>,
       <<"m","5","a","d",".","2","x","l","a","r","g","e">>,
       <<"m","5","a","d",".","4","x","l","a","r","g","e">>,
       <<"m","5","a","d",".","8","x","l","a","r","g","e">>,
       <<"m","5","a","d",".","1","2","x","l","a","r","g","e">>,
       <<"m","5","a","d",".","1","6","x","l","a","r","g","e">>,
       <<"m","5","a","d",".","2","4","x","l","a","r","g","e">>,
       <<"m","5","d",".","l","a","r","g","e">>,
       <<"m","5","d",".","x","l","a","r","g","e">>,
       <<"m","5","d",".","2","x","l","a","r","g","e">>,
       <<"m","5","d",".","4","x","l","a","r","g","e">>,
       <<"m","5","d",".","8","x","l","a","r","g","e">>,
       <<"m","5","d",".","1","2","x","l","a","r","g","e">>,
       <<"m","5","d",".","1","6","x","l","a","r","g","e">>,
       <<"m","5","d",".","2","4","x","l","a","r","g","e">>,
       <<"m","5","d",".","m","e","t","a","l">>,
       <<"m","5","d","n",".","l","a","r","g","e">>,
       <<"m","5","d","n",".","x","l","a","r","g","e">>,
       <<"m","5","d","n",".","2","x","l","a","r","g","e">>,
       <<"m","5","d","n",".","4","x","l","a","r","g","e">>,
       <<"m","5","d","n",".","8","x","l","a","r","g","e">>,
       <<"m","5","d","n",".","1","2","x","l","a","r","g","e">>,
       <<"m","5","d","n",".","1","6","x","l","a","r","g","e">>,
       <<"m","5","d","n",".","2","4","x","l","a","r","g","e">>,
       <<"m","5","d","n",".","m","e","t","a","l">>,
       <<"m","5","n",".","l","a","r","g","e">>,
       <<"m","5","n",".","x","l","a","r","g","e">>,
       <<"m","5","n",".","2","x","l","a","r","g","e">>,
       <<"m","5","n",".","4","x","l","a","r","g","e">>,
       <<"m","5","n",".","8","x","l","a","r","g","e">>,
       <<"m","5","n",".","1","2","x","l","a","r","g","e">>,
       <<"m","5","n",".","1","6","x","l","a","r","g","e">>,
       <<"m","5","n",".","2","4","x","l","a","r","g","e">>,
       <<"m","5","n",".","m","e","t","a","l">>,
       <<"m","5","z","n",".","l","a","r","g","e">>,
       <<"m","5","z","n",".","x","l","a","r","g","e">>,
       <<"m","5","z","n",".","2","x","l","a","r","g","e">>,
       <<"m","5","z","n",".","3","x","l","a","r","g","e">>,
       <<"m","5","z","n",".","6","x","l","a","r","g","e">>,
       <<"m","5","z","n",".","1","2","x","l","a","r","g","e">>,
       <<"m","5","z","n",".","m","e","t","a","l">>,
       <<"m","6","a",".","l","a","r","g","e">>,
       <<"m","6","a",".","x","l","a","r","g","e">>,
       <<"m","6","a",".","2","x","l","a","r","g","e">>,
       <<"m","6","a",".","4","x","l","a","r","g","e">>,
       <<"m","6","a",".","8","x","l","a","r","g","e">>,
       <<"m","6","a",".","1","2","x","l","a","r","g","e">>,
       <<"m","6","a",".","1","6","x","l","a","r","g","e">>,
       <<"m","6","a",".","2","4","x","l","a","r","g","e">>,
       <<"m","6","a",".","3","2","x","l","a","r","g","e">>,
       <<"m","6","a",".","4","8","x","l","a","r","g","e">>,
       <<"m","6","a",".","m","e","t","a","l">>,
       <<"m","6","g",".","m","e","d","i","u","m">>,
       <<"m","6","g",".","l","a","r","g","e">>,
       <<"m","6","g",".","x","l","a","r","g","e">>,
       <<"m","6","g",".","2","x","l","a","r","g","e">>,
       <<"m","6","g",".","4","x","l","a","r","g","e">>,
       <<"m","6","g",".","8","x","l","a","r","g","e">>,
       <<"m","6","g",".","1","2","x","l","a","r","g","e">>,
       <<"m","6","g",".","1","6","x","l","a","r","g","e">>,
       <<"m","6","g",".","m","e","t","a","l">>,
       <<"m","6","g","d",".","m","e","d","i","u","m">>,
       <<"m","6","g","d",".","l","a","r","g","e">>,
       <<"m","6","g","d",".","x","l","a","r","g","e">>,
       <<"m","6","g","d",".","2","x","l","a","r","g","e">>,
       <<"m","6","g","d",".","4","x","l","a","r","g","e">>,
       <<"m","6","g","d",".","8","x","l","a","r","g","e">>,
       <<"m","6","g","d",".","1","2","x","l","a","r","g","e">>,
       <<"m","6","g","d",".","1","6","x","l","a","r","g","e">>,
       <<"m","6","g","d",".","m","e","t","a","l">>,
       <<"m","6","i",".","l","a","r","g","e">>,
       <<"m","6","i",".","x","l","a","r","g","e">>,
       <<"m","6","i",".","2","x","l","a","r","g","e">>,
       <<"m","6","i",".","4","x","l","a","r","g","e">>,
       <<"m","6","i",".","8","x","l","a","r","g","e">>,
       <<"m","6","i",".","1","2","x","l","a","r","g","e">>,
       <<"m","6","i",".","1","6","x","l","a","r","g","e">>,
       <<"m","6","i",".","2","4","x","l","a","r","g","e">>,
       <<"m","6","i",".","3","2","x","l","a","r","g","e">>,
       <<"m","6","i",".","m","e","t","a","l">>,
       <<"m","6","i","d",".","l","a","r","g","e">>,
       <<"m","6","i","d",".","x","l","a","r","g","e">>,
       <<"m","6","i","d",".","2","x","l","a","r","g","e">>,
       <<"m","6","i","d",".","4","x","l","a","r","g","e">>,
       <<"m","6","i","d",".","8","x","l","a","r","g","e">>,
       <<"m","6","i","d",".","1","2","x","l","a","r","g","e">>,
       <<"m","6","i","d",".","1","6","x","l","a","r","g","e">>,
       <<"m","6","i","d",".","2","4","x","l","a","r","g","e">>,
       <<"m","6","i","d",".","3","2","x","l","a","r","g","e">>,
       <<"m","6","i","d",".","m","e","t","a","l">>,
       <<"m","6","i","d","n",".","l","a","r","g","e">>,
       <<"m","6","i","d","n",".","x","l","a","r","g","e">>,
       <<"m","6","i","d","n",".","2","x","l","a","r","g","e">>,
       <<"m","6","i","d","n",".","4","x","l","a","r","g","e">>,
       <<"m","6","i","d","n",".","8","x","l","a","r","g","e">>,
       <<"m","6","i","d","n",".","1","2","x","l","a","r","g","e">>,
       <<"m","6","i","d","n",".","1","6","x","l","a","r","g","e">>,
       <<"m","6","i","d","n",".","2","4","x","l","a","r","g","e">>,
       <<"m","6","i","d","n",".","3","2","x","l","a","r","g","e">>,
       <<"m","6","i","d","n",".","m","e","t","a","l">>,
       <<"m","6","i","n",".","l","a","r","g","e">>,
       <<"m","6","i","n",".","x","l","a","r","g","e">>,
       <<"m","6","i","n",".","2","x","l","a","r","g","e">>,
       <<"m","6","i","n",".","4","x","l","a","r","g","e">>,
       <<"m","6","i","n",".","8","x","l","a","r","g","e">>,
       <<"m","6","i","n",".","1","2","x","l","a","r","g","e">>,
       <<"m","6","i","n",".","1","6","x","l","a","r","g","e">>,
       <<"m","6","i","n",".","2","4","x","l","a","r","g","e">>,
       <<"m","6","i","n",".","3","2","x","l","a","r","g","e">>,
       <<"m","6","i","n",".","m","e","t","a","l">>,
       <<"m","7","a",".","m","e","d","i","u","m">>,
       <<"m","7","a",".","l","a","r","g","e">>,
       <<"m","7","a",".","x","l","a","r","g","e">>,
       <<"m","7","a",".","2","x","l","a","r","g","e">>,
       <<"m","7","a",".","4","x","l","a","r","g","e">>,
       <<"m","7","a",".","8","x","l","a","r","g","e">>,
       <<"m","7","a",".","1","2","x","l","a","r","g","e">>,
       <<"m","7","a",".","1","6","x","l","a","r","g","e">>,
       <<"m","7","a",".","2","4","x","l","a","r","g","e">>,
       <<"m","7","a",".","3","2","x","l","a","r","g","e">>,
       <<"m","7","a",".","4","8","x","l","a","r","g","e">>,
       <<"m","7","a",".","m","e","t","a","l","-","4","8","x","l">>,
       <<"m","7","g",".","m","e","d","i","u","m">>,
       <<"m","7","g",".","l","a","r","g","e">>,
       <<"m","7","g",".","x","l","a","r","g","e">>,
       <<"m","7","g",".","2","x","l","a","r","g","e">>,
       <<"m","7","g",".","4","x","l","a","r","g","e">>,
       <<"m","7","g",".","8","x","l","a","r","g","e">>,
       <<"m","7","g",".","1","2","x","l","a","r","g","e">>,
       <<"m","7","g",".","1","6","x","l","a","r","g","e">>,
       <<"m","7","g",".","m","e","t","a","l">>,
       <<"m","7","g","d",".","m","e","d","i","u","m">>,
       <<"m","7","g","d",".","l","a","r","g","e">>,
       <<"m","7","g","d",".","x","l","a","r","g","e">>,
       <<"m","7","g","d",".","2","x","l","a","r","g","e">>,
       <<"m","7","g","d",".","4","x","l","a","r","g","e">>,
       <<"m","7","g","d",".","8","x","l","a","r","g","e">>,
       <<"m","7","g","d",".","1","2","x","l","a","r","g","e">>,
       <<"m","7","g","d",".","1","6","x","l","a","r","g","e">>,
       <<"m","7","g","d",".","m","e","t","a","l">>,
       <<"m","7","i",".","l","a","r","g","e">>,
       <<"m","7","i",".","x","l","a","r","g","e">>,
       <<"m","7","i",".","2","x","l","a","r","g","e">>,
       <<"m","7","i",".","4","x","l","a","r","g","e">>,
       <<"m","7","i",".","8","x","l","a","r","g","e">>,
       <<"m","7","i",".","1","2","x","l","a","r","g","e">>,
       <<"m","7","i",".","1","6","x","l","a","r","g","e">>,
       <<"m","7","i",".","2","4","x","l","a","r","g","e">>,
       <<"m","7","i",".","4","8","x","l","a","r","g","e">>,
       <<"m","7","i",".","m","e","t","a","l","-","2","4","x","l">>,
       <<"m","7","i",".","m","e","t","a","l","-","4","8","x","l">>,
       <<"m","7","i","-","f","l","e","x",".","l","a","r","g","e">>,
       <<"m","7","i","-","f","l","e","x",".","x","l","a","r","g","e">>,
       <<"m","7","i","-","f","l","e","x",".","2","x","l","a","r","g","e">>,
       <<"m","7","i","-","f","l","e","x",".","4","x","l","a","r","g","e">>,
       <<"m","7","i","-","f","l","e","x",".","8","x","l","a","r","g","e">>,
       <<"m","a","c","1",".","m","e","t","a","l">>,
       <<"m","a","c","2",".","m","e","t","a","l">>,
       <<"m","a","c","2","-","m","2",".","m","e","t","a","l">>,
       <<"m","a","c","2","-","m","2","p","r","o",".","m","e","t","a","l">>,
       <<"c","1",".","m","e","d","i","u","m">>,
       <<"c","1",".","x","l","a","r","g","e">>,
       <<"c","3",".","l","a","r","g","e">>,
       <<"c","3",".","x","l","a","r","g","e">>,
       <<"c","3",".","2","x","l","a","r","g","e">>,
       <<"c","3",".","4","x","l","a","r","g","e">>,
       <<"c","3",".","8","x","l","a","r","g","e">>,
       <<"c","4",".","l","a","r","g","e">>,
       <<"c","4",".","x","l","a","r","g","e">>,
       <<"c","4",".","2","x","l","a","r","g","e">>,
       <<"c","4",".","4","x","l","a","r","g","e">>,
       <<"c","4",".","8","x","l","a","r","g","e">>,
       <<"c","5",".","l","a","r","g","e">>,
       <<"c","5",".","x","l","a","r","g","e">>,
       <<"c","5",".","2","x","l","a","r","g","e">>,
       <<"c","5",".","4","x","l","a","r","g","e">>,
       <<"c","5",".","9","x","l","a","r","g","e">>,
       <<"c","5",".","1","2","x","l","a","r","g","e">>,
       <<"c","5",".","1","8","x","l","a","r","g","e">>,
       <<"c","5",".","2","4","x","l","a","r","g","e">>,
       <<"c","5",".","m","e","t","a","l">>,
       <<"c","5","a",".","l","a","r","g","e">>,
       <<"c","5","a",".","x","l","a","r","g","e">>,
       <<"c","5","a",".","2","x","l","a","r","g","e">>,
       <<"c","5","a",".","4","x","l","a","r","g","e">>,
       <<"c","5","a",".","8","x","l","a","r","g","e">>,
       <<"c","5","a",".","1","2","x","l","a","r","g","e">>,
       <<"c","5","a",".","1","6","x","l","a","r","g","e">>,
       <<"c","5","a",".","2","4","x","l","a","r","g","e">>,
       <<"c","5","a","d",".","l","a","r","g","e">>,
       <<"c","5","a","d",".","x","l","a","r","g","e">>,
       <<"c","5","a","d",".","2","x","l","a","r","g","e">>,
       <<"c","5","a","d",".","4","x","l","a","r","g","e">>,
       <<"c","5","a","d",".","8","x","l","a","r","g","e">>,
       <<"c","5","a","d",".","1","2","x","l","a","r","g","e">>,
       <<"c","5","a","d",".","1","6","x","l","a","r","g","e">>,
       <<"c","5","a","d",".","2","4","x","l","a","r","g","e">>,
       <<"c","5","d",".","l","a","r","g","e">>,
       <<"c","5","d",".","x","l","a","r","g","e">>,
       <<"c","5","d",".","2","x","l","a","r","g","e">>,
       <<"c","5","d",".","4","x","l","a","r","g","e">>,
       <<"c","5","d",".","9","x","l","a","r","g","e">>,
       <<"c","5","d",".","1","2","x","l","a","r","g","e">>,
       <<"c","5","d",".","1","8","x","l","a","r","g","e">>,
       <<"c","5","d",".","2","4","x","l","a","r","g","e">>,
       <<"c","5","d",".","m","e","t","a","l">>,
       <<"c","5","n",".","l","a","r","g","e">>,
       <<"c","5","n",".","x","l","a","r","g","e">>,
       <<"c","5","n",".","2","x","l","a","r","g","e">>,
       <<"c","5","n",".","4","x","l","a","r","g","e">>,
       <<"c","5","n",".","9","x","l","a","r","g","e">>,
       <<"c","5","n",".","1","8","x","l","a","r","g","e">>,
       <<"c","5","n",".","m","e","t","a","l">>,
       <<"c","6","a",".","l","a","r","g","e">>,
       <<"c","6","a",".","x","l","a","r","g","e">>,
       <<"c","6","a",".","2","x","l","a","r","g","e">>,
       <<"c","6","a",".","4","x","l","a","r","g","e">>,
       <<"c","6","a",".","8","x","l","a","r","g","e">>,
       <<"c","6","a",".","1","2","x","l","a","r","g","e">>,
       <<"c","6","a",".","1","6","x","l","a","r","g","e">>,
       <<"c","6","a",".","2","4","x","l","a","r","g","e">>,
       <<"c","6","a",".","3","2","x","l","a","r","g","e">>,
       <<"c","6","a",".","4","8","x","l","a","r","g","e">>,
       <<"c","6","a",".","m","e","t","a","l">>,
       <<"c","6","g",".","m","e","d","i","u","m">>,
       <<"c","6","g",".","l","a","r","g","e">>,
       <<"c","6","g",".","x","l","a","r","g","e">>,
       <<"c","6","g",".","2","x","l","a","r","g","e">>,
       <<"c","6","g",".","4","x","l","a","r","g","e">>,
       <<"c","6","g",".","8","x","l","a","r","g","e">>,
       <<"c","6","g",".","1","2","x","l","a","r","g","e">>,
       <<"c","6","g",".","1","6","x","l","a","r","g","e">>,
       <<"c","6","g",".","m","e","t","a","l">>,
       <<"c","6","g","d",".","m","e","d","i","u","m">>,
       <<"c","6","g","d",".","l","a","r","g","e">>,
       <<"c","6","g","d",".","x","l","a","r","g","e">>,
       <<"c","6","g","d",".","2","x","l","a","r","g","e">>,
       <<"c","6","g","d",".","4","x","l","a","r","g","e">>,
       <<"c","6","g","d",".","8","x","l","a","r","g","e">>,
       <<"c","6","g","d",".","1","2","x","l","a","r","g","e">>,
       <<"c","6","g","d",".","1","6","x","l","a","r","g","e">>,
       <<"c","6","g","d",".","m","e","t","a","l">>,
       <<"c","6","g","n",".","m","e","d","i","u","m">>,
       <<"c","6","g","n",".","l","a","r","g","e">>,
       <<"c","6","g","n",".","x","l","a","r","g","e">>,
       <<"c","6","g","n",".","2","x","l","a","r","g","e">>,
       <<"c","6","g","n",".","4","x","l","a","r","g","e">>,
       <<"c","6","g","n",".","8","x","l","a","r","g","e">>,
       <<"c","6","g","n",".","1","2","x","l","a","r","g","e">>,
       <<"c","6","g","n",".","1","6","x","l","a","r","g","e">>,
       <<"c","6","i",".","l","a","r","g","e">>,
       <<"c","6","i",".","x","l","a","r","g","e">>,
       <<"c","6","i",".","2","x","l","a","r","g","e">>,
       <<"c","6","i",".","4","x","l","a","r","g","e">>,
       <<"c","6","i",".","8","x","l","a","r","g","e">>,
       <<"c","6","i",".","1","2","x","l","a","r","g","e">>,
       <<"c","6","i",".","1","6","x","l","a","r","g","e">>,
       <<"c","6","i",".","2","4","x","l","a","r","g","e">>,
       <<"c","6","i",".","3","2","x","l","a","r","g","e">>,
       <<"c","6","i",".","m","e","t","a","l">>,
       <<"c","6","i","d",".","l","a","r","g","e">>,
       <<"c","6","i","d",".","x","l","a","r","g","e">>,
       <<"c","6","i","d",".","2","x","l","a","r","g","e">>,
       <<"c","6","i","d",".","4","x","l","a","r","g","e">>,
       <<"c","6","i","d",".","8","x","l","a","r","g","e">>,
       <<"c","6","i","d",".","1","2","x","l","a","r","g","e">>,
       <<"c","6","i","d",".","1","6","x","l","a","r","g","e">>,
       <<"c","6","i","d",".","2","4","x","l","a","r","g","e">>,
       <<"c","6","i","d",".","3","2","x","l","a","r","g","e">>,
       <<"c","6","i","d",".","m","e","t","a","l">>,
       <<"c","6","i","n",".","l","a","r","g","e">>,
       <<"c","6","i","n",".","x","l","a","r","g","e">>,
       <<"c","6","i","n",".","2","x","l","a","r","g","e">>,
       <<"c","6","i","n",".","4","x","l","a","r","g","e">>,
       <<"c","6","i","n",".","8","x","l","a","r","g","e">>,
       <<"c","6","i","n",".","1","2","x","l","a","r","g","e">>,
       <<"c","6","i","n",".","1","6","x","l","a","r","g","e">>,
       <<"c","6","i","n",".","2","4","x","l","a","r","g","e">>,
       <<"c","6","i","n",".","3","2","x","l","a","r","g","e">>,
       <<"c","6","i","n",".","m","e","t","a","l">>,
       <<"c","7","a",".","m","e","d","i","u","m">>,
       <<"c","7","a",".","l","a","r","g","e">>,
       <<"c","7","a",".","x","l","a","r","g","e">>,
       <<"c","7","a",".","2","x","l","a","r","g","e">>,
       <<"c","7","a",".","4","x","l","a","r","g","e">>,
       <<"c","7","a",".","8","x","l","a","r","g","e">>,
       <<"c","7","a",".","1","2","x","l","a","r","g","e">>,
       <<"c","7","a",".","1","6","x","l","a","r","g","e">>,
       <<"c","7","a",".","2","4","x","l","a","r","g","e">>,
       <<"c","7","a",".","3","2","x","l","a","r","g","e">>,
       <<"c","7","a",".","4","8","x","l","a","r","g","e">>,
       <<"c","7","a",".","m","e","t","a","l","-","4","8","x","l">>,
       <<"c","7","g",".","m","e","d","i","u","m">>,
       <<"c","7","g",".","l","a","r","g","e">>,
       <<"c","7","g",".","x","l","a","r","g","e">>,
       <<"c","7","g",".","2","x","l","a","r","g","e">>,
       <<"c","7","g",".","4","x","l","a","r","g","e">>,
       <<"c","7","g",".","8","x","l","a","r","g","e">>,
       <<"c","7","g",".","1","2","x","l","a","r","g","e">>,
       <<"c","7","g",".","1","6","x","l","a","r","g","e">>,
       <<"c","7","g",".","m","e","t","a","l">>,
       <<"c","7","g","d",".","m","e","d","i","u","m">>,
       <<"c","7","g","d",".","l","a","r","g","e">>,
       <<"c","7","g","d",".","x","l","a","r","g","e">>,
       <<"c","7","g","d",".","2","x","l","a","r","g","e">>,
       <<"c","7","g","d",".","4","x","l","a","r","g","e">>,
       <<"c","7","g","d",".","8","x","l","a","r","g","e">>,
       <<"c","7","g","d",".","1","2","x","l","a","r","g","e">>,
       <<"c","7","g","d",".","1","6","x","l","a","r","g","e">>,
       <<"c","7","g","d",".","m","e","t","a","l">>,
       <<"c","7","g","n",".","m","e","d","i","u","m">>,
       <<"c","7","g","n",".","l","a","r","g","e">>,
       <<"c","7","g","n",".","x","l","a","r","g","e">>,
       <<"c","7","g","n",".","2","x","l","a","r","g","e">>,
       <<"c","7","g","n",".","4","x","l","a","r","g","e">>,
       <<"c","7","g","n",".","8","x","l","a","r","g","e">>,
       <<"c","7","g","n",".","1","2","x","l","a","r","g","e">>,
       <<"c","7","g","n",".","1","6","x","l","a","r","g","e">>,
       <<"c","7","g","n",".","m","e","t","a","l">>,
       <<"c","7","i",".","l","a","r","g","e">>,
       <<"c","7","i",".","x","l","a","r","g","e">>,
       <<"c","7","i",".","2","x","l","a","r","g","e">>,
       <<"c","7","i",".","4","x","l","a","r","g","e">>,
       <<"c","7","i",".","8","x","l","a","r","g","e">>,
       <<"c","7","i",".","1","2","x","l","a","r","g","e">>,
       <<"c","7","i",".","1","6","x","l","a","r","g","e">>,
       <<"c","7","i",".","2","4","x","l","a","r","g","e">>,
       <<"c","7","i",".","4","8","x","l","a","r","g","e">>,
       <<"c","7","i",".","m","e","t","a","l","-","2","4","x","l">>,
       <<"c","7","i",".","m","e","t","a","l","-","4","8","x","l">>,
       <<"r","3",".","l","a","r","g","e">>,
       <<"r","3",".","x","l","a","r","g","e">>,
       <<"r","3",".","2","x","l","a","r","g","e">>,
       <<"r","3",".","4","x","l","a","r","g","e">>,
       <<"r","3",".","8","x","l","a","r","g","e">>,
       <<"r","4",".","l","a","r","g","e">>,
       <<"r","4",".","x","l","a","r","g","e">>,
       <<"r","4",".","2","x","l","a","r","g","e">>,
       <<"r","4",".","4","x","l","a","r","g","e">>,
       <<"r","4",".","8","x","l","a","r","g","e">>,
       <<"r","4",".","1","6","x","l","a","r","g","e">>,
       <<"r","5",".","l","a","r","g","e">>,
       <<"r","5",".","x","l","a","r","g","e">>,
       <<"r","5",".","2","x","l","a","r","g","e">>,
       <<"r","5",".","4","x","l","a","r","g","e">>,
       <<"r","5",".","8","x","l","a","r","g","e">>,
       <<"r","5",".","1","2","x","l","a","r","g","e">>,
       <<"r","5",".","1","6","x","l","a","r","g","e">>,
       <<"r","5",".","2","4","x","l","a","r","g","e">>,
       <<"r","5",".","m","e","t","a","l">>,
       <<"r","5","a",".","l","a","r","g","e">>,
       <<"r","5","a",".","x","l","a","r","g","e">>,
       <<"r","5","a",".","2","x","l","a","r","g","e">>,
       <<"r","5","a",".","4","x","l","a","r","g","e">>,
       <<"r","5","a",".","8","x","l","a","r","g","e">>,
       <<"r","5","a",".","1","2","x","l","a","r","g","e">>,
       <<"r","5","a",".","1","6","x","l","a","r","g","e">>,
       <<"r","5","a",".","2","4","x","l","a","r","g","e">>,
       <<"r","5","a","d",".","l","a","r","g","e">>,
       <<"r","5","a","d",".","x","l","a","r","g","e">>,
       <<"r","5","a","d",".","2","x","l","a","r","g","e">>,
       <<"r","5","a","d",".","4","x","l","a","r","g","e">>,
       <<"r","5","a","d",".","8","x","l","a","r","g","e">>,
       <<"r","5","a","d",".","1","2","x","l","a","r","g","e">>,
       <<"r","5","a","d",".","1","6","x","l","a","r","g","e">>,
       <<"r","5","a","d",".","2","4","x","l","a","r","g","e">>,
       <<"r","5","b",".","l","a","r","g","e">>,
       <<"r","5","b",".","x","l","a","r","g","e">>,
       <<"r","5","b",".","2","x","l","a","r","g","e">>,
       <<"r","5","b",".","4","x","l","a","r","g","e">>,
       <<"r","5","b",".","8","x","l","a","r","g","e">>,
       <<"r","5","b",".","1","2","x","l","a","r","g","e">>,
       <<"r","5","b",".","1","6","x","l","a","r","g","e">>,
       <<"r","5","b",".","2","4","x","l","a","r","g","e">>,
       <<"r","5","b",".","m","e","t","a","l">>,
       <<"r","5","d",".","l","a","r","g","e">>,
       <<"r","5","d",".","x","l","a","r","g","e">>,
       <<"r","5","d",".","2","x","l","a","r","g","e">>,
       <<"r","5","d",".","4","x","l","a","r","g","e">>,
       <<"r","5","d",".","8","x","l","a","r","g","e">>,
       <<"r","5","d",".","1","2","x","l","a","r","g","e">>,
       <<"r","5","d",".","1","6","x","l","a","r","g","e">>,
       <<"r","5","d",".","2","4","x","l","a","r","g","e">>,
       <<"r","5","d",".","m","e","t","a","l">>,
       <<"r","5","d","n",".","l","a","r","g","e">>,
       <<"r","5","d","n",".","x","l","a","r","g","e">>,
       <<"r","5","d","n",".","2","x","l","a","r","g","e">>,
       <<"r","5","d","n",".","4","x","l","a","r","g","e">>,
       <<"r","5","d","n",".","8","x","l","a","r","g","e">>,
       <<"r","5","d","n",".","1","2","x","l","a","r","g","e">>,
       <<"r","5","d","n",".","1","6","x","l","a","r","g","e">>,
       <<"r","5","d","n",".","2","4","x","l","a","r","g","e">>,
       <<"r","5","d","n",".","m","e","t","a","l">>,
       <<"r","5","n",".","l","a","r","g","e">>,
       <<"r","5","n",".","x","l","a","r","g","e">>,
       <<"r","5","n",".","2","x","l","a","r","g","e">>,
       <<"r","5","n",".","4","x","l","a","r","g","e">>,
       <<"r","5","n",".","8","x","l","a","r","g","e">>,
       <<"r","5","n",".","1","2","x","l","a","r","g","e">>,
       <<"r","5","n",".","1","6","x","l","a","r","g","e">>,
       <<"r","5","n",".","2","4","x","l","a","r","g","e">>,
       <<"r","5","n",".","m","e","t","a","l">>,
       <<"r","6","a",".","l","a","r","g","e">>,
       <<"r","6","a",".","x","l","a","r","g","e">>,
       <<"r","6","a",".","2","x","l","a","r","g","e">>,
       <<"r","6","a",".","4","x","l","a","r","g","e">>,
       <<"r","6","a",".","8","x","l","a","r","g","e">>,
       <<"r","6","a",".","1","2","x","l","a","r","g","e">>,
       <<"r","6","a",".","1","6","x","l","a","r","g","e">>,
       <<"r","6","a",".","2","4","x","l","a","r","g","e">>,
       <<"r","6","a",".","3","2","x","l","a","r","g","e">>,
       <<"r","6","a",".","4","8","x","l","a","r","g","e">>,
       <<"r","6","a",".","m","e","t","a","l">>,
       <<"r","6","g",".","m","e","d","i","u","m">>,
       <<"r","6","g",".","l","a","r","g","e">>,
       <<"r","6","g",".","x","l","a","r","g","e">>,
       <<"r","6","g",".","2","x","l","a","r","g","e">>,
       <<"r","6","g",".","4","x","l","a","r","g","e">>,
       <<"r","6","g",".","8","x","l","a","r","g","e">>,
       <<"r","6","g",".","1","2","x","l","a","r","g","e">>,
       <<"r","6","g",".","1","6","x","l","a","r","g","e">>,
       <<"r","6","g",".","m","e","t","a","l">>,
       <<"r","6","g","d",".","m","e","d","i","u","m">>,
       <<"r","6","g","d",".","l","a","r","g","e">>,
       <<"r","6","g","d",".","x","l","a","r","g","e">>,
       <<"r","6","g","d",".","2","x","l","a","r","g","e">>,
       <<"r","6","g","d",".","4","x","l","a","r","g","e">>,
       <<"r","6","g","d",".","8","x","l","a","r","g","e">>,
       <<"r","6","g","d",".","1","2","x","l","a","r","g","e">>,
       <<"r","6","g","d",".","1","6","x","l","a","r","g","e">>,
       <<"r","6","g","d",".","m","e","t","a","l">>,
       <<"r","6","i",".","l","a","r","g","e">>,
       <<"r","6","i",".","x","l","a","r","g","e">>,
       <<"r","6","i",".","2","x","l","a","r","g","e">>,
       <<"r","6","i",".","4","x","l","a","r","g","e">>,
       <<"r","6","i",".","8","x","l","a","r","g","e">>,
       <<"r","6","i",".","1","2","x","l","a","r","g","e">>,
       <<"r","6","i",".","1","6","x","l","a","r","g","e">>,
       <<"r","6","i",".","2","4","x","l","a","r","g","e">>,
       <<"r","6","i",".","3","2","x","l","a","r","g","e">>,
       <<"r","6","i",".","m","e","t","a","l">>,
       <<"r","6","i","d",".","l","a","r","g","e">>,
       <<"r","6","i","d",".","x","l","a","r","g","e">>,
       <<"r","6","i","d",".","2","x","l","a","r","g","e">>,
       <<"r","6","i","d",".","4","x","l","a","r","g","e">>,
       <<"r","6","i","d",".","8","x","l","a","r","g","e">>,
       <<"r","6","i","d",".","1","2","x","l","a","r","g","e">>,
       <<"r","6","i","d",".","1","6","x","l","a","r","g","e">>,
       <<"r","6","i","d",".","2","4","x","l","a","r","g","e">>,
       <<"r","6","i","d",".","3","2","x","l","a","r","g","e">>,
       <<"r","6","i","d",".","m","e","t","a","l">>,
       <<"r","6","i","d","n",".","l","a","r","g","e">>,
       <<"r","6","i","d","n",".","x","l","a","r","g","e">>,
       <<"r","6","i","d","n",".","2","x","l","a","r","g","e">>,
       <<"r","6","i","d","n",".","4","x","l","a","r","g","e">>,
       <<"r","6","i","d","n",".","8","x","l","a","r","g","e">>,
       <<"r","6","i","d","n",".","1","2","x","l","a","r","g","e">>,
       <<"r","6","i","d","n",".","1","6","x","l","a","r","g","e">>,
       <<"r","6","i","d","n",".","2","4","x","l","a","r","g","e">>,
       <<"r","6","i","d","n",".","3","2","x","l","a","r","g","e">>,
       <<"r","6","i","d","n",".","m","e","t","a","l">>,
       <<"r","6","i","n",".","l","a","r","g","e">>,
       <<"r","6","i","n",".","x","l","a","r","g","e">>,
       <<"r","6","i","n",".","2","x","l","a","r","g","e">>,
       <<"r","6","i","n",".","4","x","l","a","r","g","e">>,
       <<"r","6","i","n",".","8","x","l","a","r","g","e">>,
       <<"r","6","i","n",".","1","2","x","l","a","r","g","e">>,
       <<"r","6","i","n",".","1","6","x","l","a","r","g","e">>,
       <<"r","6","i","n",".","2","4","x","l","a","r","g","e">>,
       <<"r","6","i","n",".","3","2","x","l","a","r","g","e">>,
       <<"r","6","i","n",".","m","e","t","a","l">>,
       <<"r","7","a",".","m","e","d","i","u","m">>,
       <<"r","7","a",".","l","a","r","g","e">>,
       <<"r","7","a",".","x","l","a","r","g","e">>,
       <<"r","7","a",".","2","x","l","a","r","g","e">>,
       <<"r","7","a",".","4","x","l","a","r","g","e">>,
       <<"r","7","a",".","8","x","l","a","r","g","e">>,
       <<"r","7","a",".","1","2","x","l","a","r","g","e">>,
       <<"r","7","a",".","1","6","x","l","a","r","g","e">>,
       <<"r","7","a",".","2","4","x","l","a","r","g","e">>,
       <<"r","7","a",".","3","2","x","l","a","r","g","e">>,
       <<"r","7","a",".","4","8","x","l","a","r","g","e">>,
       <<"r","7","a",".","m","e","t","a","l","-","4","8","x","l">>,
       <<"r","7","g",".","m","e","d","i","u","m">>,
       <<"r","7","g",".","l","a","r","g","e">>,
       <<"r","7","g",".","x","l","a","r","g","e">>,
       <<"r","7","g",".","2","x","l","a","r","g","e">>,
       <<"r","7","g",".","4","x","l","a","r","g","e">>,
       <<"r","7","g",".","8","x","l","a","r","g","e">>,
       <<"r","7","g",".","1","2","x","l","a","r","g","e">>,
       <<"r","7","g",".","1","6","x","l","a","r","g","e">>,
       <<"r","7","g",".","m","e","t","a","l">>,
       <<"r","7","g","d",".","m","e","d","i","u","m">>,
       <<"r","7","g","d",".","l","a","r","g","e">>,
       <<"r","7","g","d",".","x","l","a","r","g","e">>,
       <<"r","7","g","d",".","2","x","l","a","r","g","e">>,
       <<"r","7","g","d",".","4","x","l","a","r","g","e">>,
       <<"r","7","g","d",".","8","x","l","a","r","g","e">>,
       <<"r","7","g","d",".","1","2","x","l","a","r","g","e">>,
       <<"r","7","g","d",".","1","6","x","l","a","r","g","e">>,
       <<"r","7","g","d",".","m","e","t","a","l">>,
       <<"r","7","i",".","l","a","r","g","e">>,
       <<"r","7","i",".","x","l","a","r","g","e">>,
       <<"r","7","i",".","2","x","l","a","r","g","e">>,
       <<"r","7","i",".","4","x","l","a","r","g","e">>,
       <<"r","7","i",".","8","x","l","a","r","g","e">>,
       <<"r","7","i",".","1","2","x","l","a","r","g","e">>,
       <<"r","7","i",".","1","6","x","l","a","r","g","e">>,
       <<"r","7","i",".","2","4","x","l","a","r","g","e">>,
       <<"r","7","i",".","4","8","x","l","a","r","g","e">>,
       <<"r","7","i",".","m","e","t","a","l","-","2","4","x","l">>,
       <<"r","7","i",".","m","e","t","a","l","-","4","8","x","l">>,
       <<"r","7","i","z",".","l","a","r","g","e">>,
       <<"r","7","i","z",".","x","l","a","r","g","e">>,
       <<"r","7","i","z",".","2","x","l","a","r","g","e">>,
       <<"r","7","i","z",".","4","x","l","a","r","g","e">>,
       <<"r","7","i","z",".","8","x","l","a","r","g","e">>,
       <<"r","7","i","z",".","1","2","x","l","a","r","g","e">>,
       <<"r","7","i","z",".","1","6","x","l","a","r","g","e">>,
       <<"r","7","i","z",".","3","2","x","l","a","r","g","e">>,
       <<"r","7","i","z",".","m","e","t","a","l","-","1","6","x","l">>,
       <<"r","7","i","z",".","m","e","t","a","l","-","3","2","x","l">>,
       <<"x","1",".","1","6","x","l","a","r","g","e">>,
       <<"x","1",".","3","2","x","l","a","r","g","e">>,
       <<"x","1","e",".","x","l","a","r","g","e">>,
       <<"x","1","e",".","2","x","l","a","r","g","e">>,
       <<"x","1","e",".","4","x","l","a","r","g","e">>,
       <<"x","1","e",".","8","x","l","a","r","g","e">>,
       <<"x","1","e",".","1","6","x","l","a","r","g","e">>,
       <<"x","1","e",".","3","2","x","l","a","r","g","e">>,
       <<"x","2","g","d",".","m","e","d","i","u","m">>,
       <<"x","2","g","d",".","l","a","r","g","e">>,
       <<"x","2","g","d",".","x","l","a","r","g","e">>,
       <<"x","2","g","d",".","2","x","l","a","r","g","e">>,
       <<"x","2","g","d",".","4","x","l","a","r","g","e">>,
       <<"x","2","g","d",".","8","x","l","a","r","g","e">>,
       <<"x","2","g","d",".","1","2","x","l","a","r","g","e">>,
       <<"x","2","g","d",".","1","6","x","l","a","r","g","e">>,
       <<"x","2","g","d",".","m","e","t","a","l">>,
       <<"x","2","i","d","n",".","1","6","x","l","a","r","g","e">>,
       <<"x","2","i","d","n",".","2","4","x","l","a","r","g","e">>,
       <<"x","2","i","d","n",".","3","2","x","l","a","r","g","e">>,
       <<"x","2","i","d","n",".","m","e","t","a","l">>,
       <<"x","2","i","e","d","n",".","x","l","a","r","g","e">>,
       <<"x","2","i","e","d","n",".","2","x","l","a","r","g","e">>,
       <<"x","2","i","e","d","n",".","4","x","l","a","r","g","e">>,
       <<"x","2","i","e","d","n",".","8","x","l","a","r","g","e">>,
       <<"x","2","i","e","d","n",".","1","6","x","l","a","r","g","e">>,
       <<"x","2","i","e","d","n",".","2","4","x","l","a","r","g","e">>,
       <<"x","2","i","e","d","n",".","3","2","x","l","a","r","g","e">>,
       <<"x","2","i","e","d","n",".","m","e","t","a","l">>,
       <<"x","2","i","e","z","n",".","2","x","l","a","r","g","e">>,
       <<"x","2","i","e","z","n",".","4","x","l","a","r","g","e">>,
       <<"x","2","i","e","z","n",".","6","x","l","a","r","g","e">>,
       <<"x","2","i","e","z","n",".","8","x","l","a","r","g","e">>,
       <<"x","2","i","e","z","n",".","1","2","x","l","a","r","g","e">>,
       <<"x","2","i","e","z","n",".","m","e","t","a","l">>,
       <<"z","1","d",".","l","a","r","g","e">>,
       <<"z","1","d",".","x","l","a","r","g","e">>,
       <<"z","1","d",".","2","x","l","a","r","g","e">>,
       <<"z","1","d",".","3","x","l","a","r","g","e">>,
       <<"z","1","d",".","6","x","l","a","r","g","e">>,
       <<"z","1","d",".","1","2","x","l","a","r","g","e">>,
       <<"z","1","d",".","m","e","t","a","l">>,
       <<"u","-","3","t","b","1",".","5","6","x","l","a","r","g","e">>,
       <<"u","-","6","t","b","1",".","5","6","x","l","a","r","g","e">>,
       <<"u","-","6","t","b","1",".","1","1","2","x","l","a","r","g","e">>,
       <<"u","-","6","t","b","1",".","m","e","t","a","l">>,
       <<"u","-","9","t","b","1",".","1","1","2","x","l","a","r","g","e">>,
       <<"u","-","9","t","b","1",".","m","e","t","a","l">>,
       <<"u","-","1","2","t","b","1",".","1","1","2","x","l","a","r","g","e">>,
       <<"u","-","1","2","t","b","1",".","m","e","t","a","l">>,
       <<"u","-","1","8","t","b","1",".","1","1","2","x","l","a","r","g","e">>,
       <<"u","-","1","8","t","b","1",".","m","e","t","a","l">>,
       <<"u","-","2","4","t","b","1",".","1","1","2","x","l","a","r","g","e">>,
       <<"u","-","2","4","t","b","1",".","m","e","t","a","l">>,
       <<"d","2",".","x","l","a","r","g","e">>,
       <<"d","2",".","2","x","l","a","r","g","e">>,
       <<"d","2",".","4","x","l","a","r","g","e">>,
       <<"d","2",".","8","x","l","a","r","g","e">>,
       <<"d","3",".","x","l","a","r","g","e">>,
       <<"d","3",".","2","x","l","a","r","g","e">>,
       <<"d","3",".","4","x","l","a","r","g","e">>,
       <<"d","3",".","8","x","l","a","r","g","e">>,
       <<"d","3","e","n",".","x","l","a","r","g","e">>,
       <<"d","3","e","n",".","2","x","l","a","r","g","e">>,
       <<"d","3","e","n",".","4","x","l","a","r","g","e">>,
       <<"d","3","e","n",".","6","x","l","a","r","g","e">>,
       <<"d","3","e","n",".","8","x","l","a","r","g","e">>,
       <<"d","3","e","n",".","1","2","x","l","a","r","g","e">>,
       <<"h","1",".","2","x","l","a","r","g","e">>,
       <<"h","1",".","4","x","l","a","r","g","e">>,
       <<"h","1",".","8","x","l","a","r","g","e">>,
       <<"h","1",".","1","6","x","l","a","r","g","e">>,
       <<"h","s","1",".","8","x","l","a","r","g","e">>,
       <<"i","2",".","x","l","a","r","g","e">>,
       <<"i","2",".","2","x","l","a","r","g","e">>,
       <<"i","2",".","4","x","l","a","r","g","e">>,
       <<"i","2",".","8","x","l","a","r","g","e">>,
       <<"i","3",".","l","a","r","g","e">>,
       <<"i","3",".","x","l","a","r","g","e">>,
       <<"i","3",".","2","x","l","a","r","g","e">>,
       <<"i","3",".","4","x","l","a","r","g","e">>,
       <<"i","3",".","8","x","l","a","r","g","e">>,
       <<"i","3",".","1","6","x","l","a","r","g","e">>,
       <<"i","3",".","m","e","t","a","l">>,
       <<"i","3","e","n",".","l","a","r","g","e">>,
       <<"i","3","e","n",".","x","l","a","r","g","e">>,
       <<"i","3","e","n",".","2","x","l","a","r","g","e">>,
       <<"i","3","e","n",".","3","x","l","a","r","g","e">>,
       <<"i","3","e","n",".","6","x","l","a","r","g","e">>,
       <<"i","3","e","n",".","1","2","x","l","a","r","g","e">>,
       <<"i","3","e","n",".","2","4","x","l","a","r","g","e">>,
       <<"i","3","e","n",".","m","e","t","a","l">>,
       <<"i","4","g",".","l","a","r","g","e">>,
       <<"i","4","g",".","x","l","a","r","g","e">>,
       <<"i","4","g",".","2","x","l","a","r","g","e">>,
       <<"i","4","g",".","4","x","l","a","r","g","e">>,
       <<"i","4","g",".","8","x","l","a","r","g","e">>,
       <<"i","4","g",".","1","6","x","l","a","r","g","e">>,
       <<"i","4","i",".","l","a","r","g","e">>,
       <<"i","4","i",".","x","l","a","r","g","e">>,
       <<"i","4","i",".","2","x","l","a","r","g","e">>,
       <<"i","4","i",".","4","x","l","a","r","g","e">>,
       <<"i","4","i",".","8","x","l","a","r","g","e">>,
       <<"i","4","i",".","1","6","x","l","a","r","g","e">>,
       <<"i","4","i",".","3","2","x","l","a","r","g","e">>,
       <<"i","4","i",".","m","e","t","a","l">>,
       <<"i","m","4","g","n",".","l","a","r","g","e">>,
       <<"i","m","4","g","n",".","x","l","a","r","g","e">>,
       <<"i","m","4","g","n",".","2","x","l","a","r","g","e">>,
       <<"i","m","4","g","n",".","4","x","l","a","r","g","e">>,
       <<"i","m","4","g","n",".","8","x","l","a","r","g","e">>,
       <<"i","m","4","g","n",".","1","6","x","l","a","r","g","e">>,
       <<"i","s","4","g","e","n",".","m","e","d","i","u","m">>,
       <<"i","s","4","g","e","n",".","l","a","r","g","e">>,
       <<"i","s","4","g","e","n",".","x","l","a","r","g","e">>,
       <<"i","s","4","g","e","n",".","2","x","l","a","r","g","e">>,
       <<"i","s","4","g","e","n",".","4","x","l","a","r","g","e">>,
       <<"i","s","4","g","e","n",".","8","x","l","a","r","g","e">>,
       <<"p","2",".","x","l","a","r","g","e">>,
       <<"p","2",".","8","x","l","a","r","g","e">>,
       <<"p","2",".","1","6","x","l","a","r","g","e">>,
       <<"p","3",".","2","x","l","a","r","g","e">>,
       <<"p","3",".","8","x","l","a","r","g","e">>,
       <<"p","3",".","1","6","x","l","a","r","g","e">>,
       <<"p","3","d","n",".","2","4","x","l","a","r","g","e">>,
       <<"p","4","d",".","2","4","x","l","a","r","g","e">>,
       <<"p","4","d","e",".","2","4","x","l","a","r","g","e">>,
       <<"p","5",".","4","8","x","l","a","r","g","e">>,
       <<"g","2",".","2","x","l","a","r","g","e">>,
       <<"g","2",".","8","x","l","a","r","g","e">>,
       <<"g","3",".","4","x","l","a","r","g","e">>,
       <<"g","3",".","8","x","l","a","r","g","e">>,
       <<"g","3",".","1","6","x","l","a","r","g","e">>,
       <<"g","3","s",".","x","l","a","r","g","e">>,
       <<"g","4","a","d",".","x","l","a","r","g","e">>,
       <<"g","4","a","d",".","2","x","l","a","r","g","e">>,
       <<"g","4","a","d",".","4","x","l","a","r","g","e">>,
       <<"g","4","a","d",".","8","x","l","a","r","g","e">>,
       <<"g","4","a","d",".","1","6","x","l","a","r","g","e">>,
       <<"g","4","d","n",".","x","l","a","r","g","e">>,
       <<"g","4","d","n",".","2","x","l","a","r","g","e">>,
       <<"g","4","d","n",".","4","x","l","a","r","g","e">>,
       <<"g","4","d","n",".","8","x","l","a","r","g","e">>,
       <<"g","4","d","n",".","1","2","x","l","a","r","g","e">>,
       <<"g","4","d","n",".","1","6","x","l","a","r","g","e">>,
       <<"g","4","d","n",".","m","e","t","a","l">>,
       <<"g","5",".","x","l","a","r","g","e">>,
       <<"g","5",".","2","x","l","a","r","g","e">>,
       <<"g","5",".","4","x","l","a","r","g","e">>,
       <<"g","5",".","8","x","l","a","r","g","e">>,
       <<"g","5",".","1","2","x","l","a","r","g","e">>,
       <<"g","5",".","1","6","x","l","a","r","g","e">>,
       <<"g","5",".","2","4","x","l","a","r","g","e">>,
       <<"g","5",".","4","8","x","l","a","r","g","e">>,
       <<"g","5","g",".","x","l","a","r","g","e">>,
       <<"g","5","g",".","2","x","l","a","r","g","e">>,
       <<"g","5","g",".","4","x","l","a","r","g","e">>,
       <<"g","5","g",".","8","x","l","a","r","g","e">>,
       <<"g","5","g",".","1","6","x","l","a","r","g","e">>,
       <<"g","5","g",".","m","e","t","a","l">>,
       <<"g","6",".","x","l","a","r","g","e">>,
       <<"g","6",".","2","x","l","a","r","g","e">>,
       <<"g","6",".","4","x","l","a","r","g","e">>,
       <<"g","6",".","8","x","l","a","r","g","e">>,
       <<"g","6",".","1","2","x","l","a","r","g","e">>,
       <<"g","6",".","1","6","x","l","a","r","g","e">>,
       <<"g","6",".","2","4","x","l","a","r","g","e">>,
       <<"g","6",".","4","8","x","l","a","r","g","e">>,
       <<"i","n","f","1",".","x","l","a","r","g","e">>,
       <<"i","n","f","1",".","2","x","l","a","r","g","e">>,
       <<"i","n","f","1",".","6","x","l","a","r","g","e">>,
       <<"i","n","f","1",".","2","4","x","l","a","r","g","e">>,
       <<"i","n","f","2",".","x","l","a","r","g","e">>,
       <<"i","n","f","2",".","8","x","l","a","r","g","e">>,
       <<"i","n","f","2",".","2","4","x","l","a","r","g","e">>,
       <<"i","n","f","2",".","4","8","x","l","a","r","g","e">>,
       <<"t","r","n","1",".","2","x","l","a","r","g","e">>,
       <<"t","r","n","1",".","3","2","x","l","a","r","g","e">>,
       <<"t","r","n","1","n",".","3","2","x","l","a","r","g","e">>,
       <<"f","1",".","2","x","l","a","r","g","e">>,
       <<"f","1",".","4","x","l","a","r","g","e">>,
       <<"f","1",".","1","6","x","l","a","r","g","e">>,
       <<"v","t","1",".","3","x","l","a","r","g","e">>,
       <<"v","t","1",".","6","x","l","a","r","g","e">>,
       <<"v","t","1",".","2","4","x","l","a","r","g","e">>,
       <<"d","l","1",".","2","4","x","l","a","r","g","e">>,
       <<"d","l","2","q",".","2","4","x","l","a","r","g","e">>,
       <<"h","p","c","6","a",".","4","8","x","l","a","r","g","e">>,
       <<"h","p","c","6","i","d",".","3","2","x","l","a","r","g","e">>,
       <<"h","p","c","7","a",".","1","2","x","l","a","r","g","e">>,
       <<"h","p","c","7","a",".","2","4","x","l","a","r","g","e">>,
       <<"h","p","c","7","a",".","4","8","x","l","a","r","g","e">>,
       <<"h","p","c","7","a",".","9","6","x","l","a","r","g","e">>,
       <<"h","p","c","7","g",".","4","x","l","a","r","g","e">>,
       <<"h","p","c","7","g",".","8","x","l","a","r","g","e">>,
       <<"h","p","c","7","g",".","1","6","x","l","a","r","g","e">> >>

\* regex::Regex::new on the patterns the operator types in the model: a
\* pattern is built from literal characters, "." (any character) and
\* bracketed classes.  Inside a class a "]" right after the opening bracket
\* is a member, a "[" opens a nested class, and every other character is a
\* member; a class that is not closed is a syntax error.  Outside a class a
\* "]" is a literal.  ParseClass yields <<closed, members, next position>>.
RECURSIVE ParseClass(_, _, _, _)
ParseClass(text, i, members, first) ==
    IF i > Len(text) THEN <<FALSE, {}, i>>
    ELSE IF text[i] = "]" /\ ~first THEN <<TRUE, members, i + 1>>
    ELSE IF text[i] = "["
        THEN Then(ParseClass(text, i + 1, {}, TRUE), LAMBDA nested :
                 IF nested[1]
                 THEN ParseClass(text, nested[3], members \cup nested[2], FALSE)
                 ELSE nested)
    ELSE ParseClass(text, i + 1, members \cup {text[i]}, FALSE)

RECURSIVE Compile(_, _, _)
Compile(text, i, atoms) ==
    IF i > Len(text) THEN Some(atoms)
    ELSE IF text[i] = "["
        THEN Then(ParseClass(text, i + 1, {}, TRUE), LAMBDA class :
                 IF class[1]
                 THEN Compile(text, class[3],
                              Append(atoms, [any |-> FALSE, of |-> class[2]]))
                 ELSE None)
    ELSE IF text[i] = "."
        THEN Compile(text, i + 1, Append(atoms, [any |-> TRUE, of |-> {}]))
    ELSE Compile(text, i + 1, Append(atoms, [any |-> FALSE, of |-> {text[i]}]))

\* Regex::new: None for Err, Some(the compiled pattern) for Ok
RegexNew(text) == Compile(text, 1, <<>>)

\* Regex::is_match: the pattern matches somewhere in s
is_match(re, s) ==
    \E start \in 0..(Len(s) - Len(re)) :
        \A j \in 1..Len(re) : re[j].any \/ s[start + j] \in re[j].of

\* App::new
Ec2New ==
    [instances |-> <<>>,
     table_state |-> None,
     current_region |-> Ec2Regions[1],
     region_index |-> 0,
     status_message |-> <<"Press 'h' for help">>,
     show_help |-> FALSE,
     show_logs |-> FALSE,
     is_loading |-> FALSE,
     show_region_selector |-> FALSE,
     region_filter |-> <<>>,
     filtered_regions |-> Ec2Regions,
     region_selector_state |-> Some(0),
     show_instance_filter |-> FALSE,
     instance_filter |-> <<>>,
     filtered_instance_indices |-> <<>>,
     show_resize_dialog |-> FALSE,
     resize_type_filter |-> <<>>,
     filtered_resize_types |-> ResizeInstanceTypes,
     resize_selector_state |-> Some(0)]

open_region_selector(e) ==
    [e EXCEPT !.show_region_selector = TRUE,
              !.region_filter = <<>>,
              !.filtered_regions = Ec2Regions,
              !.region_selector_state = Some(0)]

close_region_selector(e) ==
    [e EXCEPT !.show_region_selector = FALSE, !.region_filter = <<>>]

\* the selection of a selector after its filtered sequence has been rebuilt
ResetSelection(selected, filtered) ==
    IF UnwrapOr(selected, 0) >= Len(filtered) /\ Len(filtered) > 0 THEN Some(0)
    ELSE IF Len(filtered) = 0 THEN None
    ELSE selected

\* App::update_region_filter of ec2-tui
ec2_update_region_filter(e) ==
    LET filtered ==
            IF Len(e.region_filter) = 0 THEN Ec2Regions
            ELSE Then(RegexNew(e.region_filter), LAMBDA re :
                     IF IsSome(re)
                     THEN SelectSeq(Ec2Regions,
                                    LAMBDA region : is_match(Unwrap(re), region))
                     ELSE SelectSeq(Ec2Regions,
                                    LAMBDA region :
                                        Contains(ToLower(region),
                                                 ToLower(e.region_filter))))
    IN  [e EXCEPT !.filtered_regions = filtered,
                  !.region_selector_state = ResetSelection(@, filtered)]

\* next_filtered_region, next_filtered_resize_type: the selection one down
NextFiltered(selected, n) ==
    IF IsSome(selected)
    THEN IF Unwrap(selected) >= n - 1 THEN Some(0) ELSE Some(Unwrap(selected) + 1)
    ELSE Some(0)

\* previous_filtered_region, previous_filtered_resize_type: the selection one up
PreviousFiltered(selected, n) ==
    IF IsSome(selected)
    THEN IF Unwrap(selected) = 0 THEN Some(n - 1) ELSE Some(Unwrap(selected) - 1)
    ELSE Some(0)

next_filtered_region(e) ==
    IF Len(e.filtered_regions) = 0 THEN e
    ELSE [e EXCEPT !.region_selector_state =
                       NextFiltered(@, Len(e.filtered_regions))]

\* previous_filtered_region wrapping to the bottom of the catalog
previous_filtered_region_over_catalog(e) ==
    IF Len(e.filtered_regions) = 0 THEN e
    ELSE [e EXCEPT !.region_selector_state =
                       PreviousFiltered(@, Len(Ec2Regions))]

previous_filtered_region(e) ==
    IF Len(e.filtered_regions) = 0 THEN e
    ELSE [e EXCEPT !.region_selector_state =
                       PreviousFiltered(@, Len(e.filtered_regions))]

\* select_filtered_region: <<the App afterwards, the Option it returns>>
select_filtered_region(e) ==
    IF IsSome(e.region_selector_state)
       /\ Unwrap(e.region_selector_state) < Len(e.filtered_regions)
    THEN LET selected_region ==
                 e.filtered_regions[Unwrap(e.region_selector_state) + 1]
             found == {i \in 1..Len(Ec2Regions) : Ec2Regions[i] = selected_region}
             idx == CHOOSE i \in found : \A j \in found : i <= j
         IN  << close_region_selector(
                    IF found # {}
                    THEN [e EXCEPT !.region_index = idx - 1,
                                   !.current_region = selected_region]
                    ELSE e),
                Some(selected_region) >>
    ELSE <<e, None>>

clear_instance_filter(e) ==
    [e EXCEPT !.instance_filter = <<>>,
              !.filtered_instance_indices = <<>>,
              !.status_message = <<"Filter cleared">>]

\* update_instance_filter with instance_matches_regex and
\* instance_matches_literal, which look at these texts of an instance
update_instance_filter(e) ==
    IF Len(e.instance_filter) = 0
    THEN [e EXCEPT !.filtered_instance_indices = <<>>]
    ELSE LET re == RegexNew(e.instance_filter)
             filter_lower == ToLower(e.instance_filter)
             texts(instance) ==
                 { instance.id, instance.name, instance.state,
                   instance.instance_type, instance.public_ip,
                   instance.private_ip, instance.ipv6 }
                 \cup {instance.tags[i][1] : i \in 1..Len(instance.tags)}
                 \cup {instance.tags[i][2] : i \in 1..Len(instance.tags)}
             matches(i) ==
                 IF IsSome(re)
                 THEN \E text \in texts(e.instances[i + 1]) :
                          is_match(Unwrap(re), text)
                 ELSE \E text \in texts(e.instances[i + 1]) :
                          Contains(ToLower(text), filter_lower)
             indices == SelectSeq([i \in 1..Len(e.instances) |-> i - 1], matches)
         IN  [e EXCEPT !.filtered_instance_indices = indices,
                       !.table_state =
                           IF IsSome(@) /\ Len(indices) > 0
                              /\ \A i \in 1..Len(indices) : indices[i] # Unwrap(@)
                           THEN Some(indices[1])
                           ELSE @]

is_filter_active(e) == Len(e.instance_filter) > 0

get_actual_instance_index(e) ==
    IF IsNone(e.table_state) THEN None
    ELSE IF is_filter_active(e)
        THEN Get(e.filtered_instance_indices, Unwrap(e.table_state))
    ELSE e.table_state

next_instance(e) ==
    IF Len(e.instances) = 0 THEN e
    ELSE IF is_filter_active(e)
        THEN IF Len(e.filtered_instance_indices) = 0 THEN e
             ELSE LET current_pos == UnwrapOr(e.table_state, 0)
                  IN  [e EXCEPT !.table_state =
                          IF current_pos >= Len(e.filtered_instance_indices) - 1
                          THEN Some(0)
                          ELSE Some(current_pos + 1)]
    ELSE [e EXCEPT !.table_state =
             IF IsSome(@)
             THEN IF Unwrap(@) >= Len(e.instances) - 1 THEN Some(0)
                  ELSE Some(Unwrap(@) + 1)
             ELSE Some(0)]

previous_instance(e) ==
    IF Len(e.instances) = 0 THEN e
    ELSE IF is_filter_active(e)
        THEN IF Len(e.filtered_instance_indices) = 0 THEN e
             ELSE LET current_pos == UnwrapOr(e.table_state, 0)
                  IN  [e EXCEPT !.table_state =
                          IF current_pos = 0
                          THEN Some(Len(e.filtered_instance_indices) - 1)
                          ELSE Some(current_pos - 1)]
    ELSE [e EXCEPT !.table_state =
             IF IsSome(@)
             THEN IF Unwrap(@) = 0 THEN Some(Len(e.instances) - 1)
                  ELSE Some(Unwrap(@) - 1)
             ELSE Some(0)]

open_resize_dialog(e) ==
    [e EXCEPT !.show_resize_dialog = TRUE,
              !.resize_type_filter = <<>>,
              !.filtered_resize_types = ResizeInstanceTypes,
              !.resize_selector_state = Some(0)]

close_resize_dialog(e) ==
    [e EXCEPT !.show_resize_dialog = FALSE, !.resize_type_filter = <<>>]

update_resize_type_filter(e) ==
    LET filtered ==
            IF Len(e.resize_type_filter) = 0 THEN ResizeInstanceTypes
            ELSE SelectSeq(ResizeInstanceTypes,
                           LAMBDA itype :
                               Contains(ToLower(itype),
                                        ToLower(e.resize_type_filter)))
    IN  [e EXCEPT !.filtered_resize_types = filtered,
                  !.resize_selector_state = ResetSelection(@, filtered)]

next_filtered_resize_type(e) ==
    IF Len(e.filtered_resize_types) = 0 THEN e
    ELSE [e EXCEPT !.resize_selector_state =
                       NextFiltered(@, Len(e.filtered_resize_types))]

previous_filtered_resize_type(e) ==
    IF Len(e.filtered_resize_types) = 0 THEN e
    ELSE [e EXCEPT !.resize_selector_state =
                       PreviousFiltered(@, Len(e.filtered_resize_types))]

get_selected_resize_type(e) ==
    IF IsSome(e.resize_selector_state)
       /\ Unwrap(e.resize_selector_state) < Len(e.filtered_resize_types)
    THEN Some(e.filtered_resize_types[Unwrap(e.resize_selector_state) + 1])
    ELSE None

\* The results of load_instances and resize_instance when both succeed.  The
\* EC2 service is external: the model fixes two instances, a running one and
\* a stopped one without tags that shares none of its names.
Ec2AllOk ==
    LET web == [id |-> <<"i","-","0","a">>,
                name |-> <<"w","e","b">>,
                state |-> <<"r","u","n","n","i","n","g">>,
                instance_type |-> <<"t","3",".","m","i","c","r","o">>,
                public_ip |-> <<"N","/","A">>,
                private_ip |-> <<"1","0",".","0",".","0",".","5">>,
                ipv6 |-> <<"N","/","A">>,
                tags |-> << << <<"e","n","v">>, <<"p","r","o","d">> >> >>]
        sql == [web EXCEPT !.id = <<"i","-","0","z">>,
                           !.name = <<"s","q","l">>,
                           !.state = <<"s","t","o","p","p","e","d">>,
                           !.private_ip = <<"1","0",".","0",".","0",".","6">>,
                           !.tags = <<>>]
    IN  [load |-> <<"Ok", <<web, sql>>>>, resize |-> "Ok"]

\* load_instances and what the loop does with its result; keep is TRUE at
\* startup, where an empty result leaves the table selection alone
load_instances(m, region, out, keep) ==
    Then(Call([m EXCEPT !.app.is_loading = TRUE], "load_instances", region),
         LAMBDA m1 :
        LET e == m1.app
            loaded ==
                IF out[1] = "Ok"
                THEN [update_instance_filter(
                          [e EXCEPT !.instances = out[2],
                                    !.table_state =
                                        IF Len(out[2]) > 0 THEN Some(0)
                                        ELSE IF keep THEN @ ELSE None])
                        EXCEPT !.status_message =
                                   <<"Loaded instances", Len(out[2]), e.current_region>>]
                ELSE [e EXCEPT !.status_message = <<"Error loading instances">>]
        IN  [m1 EXCEPT !.app = [loaded EXCEPT !.is_loading = FALSE]])

\* main, up to the loop
Ec2Startup(out) ==
    load_instances([app |-> Ec2New, ev |-> <<>>, quit |-> FALSE],
                   Ec2New.current_region, out, TRUE)

\* the branch of the loop taken while the resize dialog is shown
resize_dialog_input(m, k, r) ==
    LET e == m.app
    IN  IF k.code = "Esc"
        THEN [m EXCEPT !.app = [close_resize_dialog(e) EXCEPT
                                  !.status_message = <<"Resize cancelled">>]]
        ELSE IF (k.code = "Char" /\ k.ch = "j") \/ k.code = "Down"
            THEN [m EXCEPT !.app = next_filtered_resize_type(e)]
        ELSE IF (k.code = "Char" /\ k.ch = "k") \/ k.code = "Up"
            THEN [m EXCEPT !.app = previous_filtered_resize_type(e)]
        ELSE IF k.code = "Enter"
            THEN LET new_type == get_selected_resize_type(e)
                     selected_idx == get_actual_instance_index(e)
                     instance == IF IsSome(selected_idx)
                                 THEN Get(e.instances, Unwrap(selected_idx))
                                 ELSE None
                 IN  IF IsSome(new_type) /\ IsSome(instance)
                     THEN Then(Call([m EXCEPT !.app = close_resize_dialog(e)],
                                    "resize_instance",
                                    <<e.current_region, Unwrap(instance).id,
                                      Unwrap(new_type)>>),
                               LAMBDA m1 :
                                   [m1 EXCEPT !.app.status_message =
                                       IF r.resize = "Ok" THEN <<"Resized">>
                                       ELSE <<"Error resizing instance">>])
                     ELSE m
        ELSE IF k.code = "Backspace"
            THEN [m EXCEPT !.app = update_resize_type_filter(
                                      [e EXCEPT !.resize_type_filter = Pop(@)])]
        ELSE IF k.code = "Char"
            THEN IF k.ch # "j" /\ k.ch # "k"
                 THEN [m EXCEPT !.app = update_resize_type_filter(
                                  [e EXCEPT !.resize_type_filter = Append(@, k.ch)])]
                 ELSE m
        ELSE m

\* the branch of the loop taken while the instance filter is shown
instance_filter_input(m, k) ==
    LET e == m.app
    IN  IF k.code = "Esc"
        THEN [m EXCEPT !.app.show_instance_filter = FALSE,
                       !.app.status_message = <<"Filter cancelled">>]
        ELSE IF k.code = "Enter"
            THEN Then(update_instance_filter(e), LAMBDA e1 :
                     [m EXCEPT !.app =
                         [e1 EXCEPT !.show_instance_filter = FALSE,
                                    !.status_message =
                             IF is_filter_active(e1)
                             THEN <<"Filter applied", Len(e1.filtered_instance_indices)>>
                             ELSE <<"Filter is empty">>]])
        ELSE IF k.code = "Backspace"
            THEN [m EXCEPT !.app = update_instance_filter(
                                      [e EXCEPT !.instance_filter = Pop(@)])]
        ELSE IF k.code = "Char"
            THEN [m EXCEPT !.app = update_instance_filter(
                                      [e EXCEPT !.instance_filter = Append(@, k.ch)])]
        ELSE m

\* the branch of the loop taken while the region selector is shown
region_selector_input(m, k, r) ==
    LET e == m.app
    IN  IF (k.code = "Char" /\ k.ch = "g") \/ k.code = "Esc"
        THEN [m EXCEPT !.app = close_region_selector(e)]
        ELSE IF (k.code = "Char" /\ k.ch = "j") \/ k.code = "Down"
            THEN [m EXCEPT !.app = next_filtered_region(e)]
        ELSE IF (k.code = "Char" /\ k.ch = "k") \/ k.code = "Up"
            THEN [m EXCEPT !.app = previous_filtered_region(e)]
        ELSE IF k.code = "Enter"
            THEN Then(select_filtered_region(e), LAMBDA selected :
                     IF IsSome(selected[2])
                     THEN load_instances([m EXCEPT !.app = selected[1]],
                                         Unwrap(selected[2]), r.load, FALSE)
                     ELSE m)
        ELSE IF k.code = "Backspace"
            THEN [m EXCEPT !.app = ec2_update_region_filter(
                                      [e EXCEPT !.region_filter = Pop(@)])]
        ELSE IF k.code = "Char"
            THEN [m EXCEPT !.app = ec2_update_region_filter(
                                      [e EXCEPT !.region_filter = Append(@, k.ch)])]
        ELSE m

\* One iteration of the loop of ec2-tui's main in which event::poll
\* delivered the key event k.  The keys of the main view that the model
\* presses are q, Esc, g, f, h, j, k, Down, Up and r; it does not press the
\* clipboard chords Ctrl+4 and Ctrl+6.  The refresh of 'r' keeps a selection
\* that is present.
ec2_iterate_key(m, k, r) ==
    LET e == m.app
    IN  IF IsCtrlChar(k, "c") THEN [m EXCEPT !.quit = TRUE]
        ELSE IF IsCtrlChar(k, "x")
            THEN IF is_filter_active(e)
                 THEN [m EXCEPT !.app = clear_instance_filter(e)]
                 ELSE m
        ELSE IF IsCtrlChar(k, "r")
            THEN LET selected_idx == get_actual_instance_index(e)
                 IN  IF IsSome(selected_idx)
                     THEN IF Unwrap(selected_idx) < Len(e.instances)
                          THEN [m EXCEPT !.app =
                                  [open_resize_dialog(e) EXCEPT
                                     !.status_message = <<"Select new instance type">>]]
                          ELSE m
                     ELSE [m EXCEPT !.app.status_message = <<"No instance selected">>]
        ELSE IF e.show_resize_dialog THEN resize_dialog_input(m, k, r)
        ELSE IF e.show_instance_filter THEN instance_filter_input(m, k)
        ELSE IF e.show_region_selector THEN region_selector_input(m, k, r)
        ELSE IF k.code = "Char" /\ k.ch = "q" THEN [m EXCEPT !.quit = TRUE]
        ELSE IF k.code = "Esc"
            THEN IF e.show_help THEN [m EXCEPT !.app.show_help = FALSE]
                 ELSE IF e.show_logs THEN [m EXCEPT !.app.show_logs = FALSE]
                 ELSE m
        ELSE IF k.code = "Char" /\ k.ch = "g"
            THEN IF ~e.show_help /\ ~e.is_loading
                 THEN [m EXCEPT !.app = open_region_selector(e)]
                 ELSE m
        ELSE IF k.code = "Char" /\ k.ch = "f"
            THEN IF ~e.show_help /\ ~e.is_loading
                 THEN [m EXCEPT !.app.show_instance_filter = TRUE,
                                !.app.status_message =
                                    <<"Enter filter pattern (regex)">>]
                 ELSE m
        ELSE IF k.code = "Char" /\ k.ch = "h"
            THEN [m EXCEPT !.app.show_help = ~@]
        ELSE IF (k.code = "Char" /\ k.ch = "j") \/ k.code = "Down"
            THEN IF ~e.show_help THEN [m EXCEPT !.app = next_instance(e)] ELSE m
        ELSE IF (k.code = "Char" /\ k.ch = "k") \/ k.code = "Up"
            THEN IF ~e.show_help THEN [m EXCEPT !.app = previous_instance(e)] ELSE m
        ELSE IF k.code = "Char" /\ k.ch = "r"
            THEN IF ~e.show_help /\ ~e.is_loading
                 THEN Then(Call([m EXCEPT !.app.is_loading = TRUE],
                                "load_instances", e.current_region),
                           LAMBDA m1 :
                      [m1 EXCEPT !.app =
                         [(IF r.load[1] = "Ok"
                           THEN [update_instance_filter(
                                    [e EXCEPT
                                       !.instances = r.load[2],
                                       !.table_state =
                                           IF Len(r.load[2]) > 0 /\ IsNone(@)
                                           THEN Some(0) ELSE @])
                                   EXCEPT !.status_message =
                                       <<"Refreshed instances",
                                         Len(r.load[2]), e.current_region>>]
                           ELSE [e EXCEPT !.status_message =
                                              <<"Error refreshing instances">>])
                            EXCEPT !.is_loading = FALSE]])
                 ELSE m
        ELSE m

\* the machine the next iteration starts from
Continue(m) == [m EXCEPT !.ev = <<>>]

\* The iterations that open the item editor on a table of the world: startup
\* (listing "audit" alone, or "users" and "orders"), the on-demand describe,
\* Down to the table, Enter with the scan's outcome, Down to the second
\* record when down is set, and the key k.
EditorEntry(table_name, scan, down, k) ==
    Then(Startup(IF table_name = "audit" THEN <<"Ok", <<"audit">>>> ELSE AllOk.list),
         LAMBDA m0 :
    Then(iterate_idle(Continue(m0), AllOk), LAMBDA m1 :
    Then(IF table_name = "orders"
         THEN iterate_key(Continue(m1), KeyCode("Down"), AllOk)
         ELSE m1, LAMBDA m2 :
    Then(iterate_key(Continue(m2), KeyCode("Enter"), [AllOk EXCEPT !.scan = scan]),
         LAMBDA m3 :
    Then(IF down THEN iterate_key(Continue(m3), KeyCode("Down"), AllOk) ELSE m3,
         LAMBDA m4 : iterate_key(Continue(m4), k, AllOk))))))

Init ==
    /\ prog = "dynamodb-tui"
    /\ \E out \in ListOutcomes : \E m \in {Startup(out)} :
          /\ app = m.app
          /\ mgr = m.mgr
          /\ ev = m.ev
    /\ key = None
    /\ quit = FALSE
    /\ panicked = FALSE
    /\ ec2 = None

\* The item editor just opened: create-record on the table without a range
\* key, create-record and edit-record on the table with one, create-record
\* on the table whose key is named like the row Ctrl+N adds.
InitEditor ==
    /\ prog = "dynamodb-tui"
    /\ \E entry \in {<<"users", "i">>, <<"orders", "i">>, <<"orders", "e">>,
                     <<"audit", "i">>} :
          \E m \in {EditorEntry(entry[1], "Last", FALSE, KeyChar(entry[2]))} :
              /\ app = m.app
              /\ mgr = m.mgr
              /\ ev = m.ev
              /\ key = Some(KeyChar(entry[2]))
    /\ quit = FALSE
    /\ panicked = FALSE
    /\ ec2 = None

\* A next-state relation names, in each disjunct, the program whose loop takes
\* the step.
NextEditor == prog = "dynamodb-tui" /\ ItemEditorKey(EditorKeys)

SpecEditor == InitEditor /\ [][NextEditor]_vars

----------------------------------------------------------------------------
(* Properties of the item editor, checked under SpecEditor *)

\* the editor, when there is one
Editor == Unwrap(app.item_editor)

\* name is the hash-key name, or the range-key name of a schema that declares one
NamesKey(e, name) ==
    \/ name = e.hash_key_schema.name
    \/ IsSome(e.range_key_schema) /\ name = Unwrap(e.range_key_schema).name

\* the primary key rows of the editor, in order
KeyRows(e) == SelectSeq(e.attributes, LAMBDA row : NamesKey(e, row[1]))

\* the editor is on screen, no field is being edited, and the next key is k
CommandIs(k) ==
    /\ app.state = ItemEditor
    /\ IsSome(app.item_editor)
    /\ IsNone(Editor.editing_field)
    /\ key' = Some(k)

\* the selected row is a primary key row
OnKeyRow(e) ==
    /\ e.selected_attribute_index < Len(e.attributes)
    /\ NamesKey(e, e.attributes[e.selected_attribute_index + 1][1])

\* C1: delete-attribute (Ctrl+D), start-key-edit (Ctrl+K) and cycle-type
\* (Ctrl+T) never remove or change a primary key row, and on a selected
\* primary key row each of them leaves the whole attribute sequence unchanged
\* and starts no edit of the name.
C1_KeyRowsProtected ==
    [][ \A c \in {"d", "k", "t"} :
          CommandIs(KeyCtrl(c)) =>
             /\ IsSome(app'.item_editor)
             /\ KeyRows(Unwrap(app'.item_editor)) = KeyRows(Editor)
             /\ OnKeyRow(Editor) =>
                   /\ Unwrap(app'.item_editor).attributes = Editor.attributes
                   /\ Unwrap(app'.item_editor).editing_field = None ]_vars

\* Ctrl+D has just been pressed on the range key row of a three-row record
C1_Witness ==
    /\ app.state = ItemEditor
    /\ IsSome(app.item_editor)
    /\ key = Some(KeyCtrl("d"))
    /\ IsSome(Editor.range_key_schema)
    /\ IsNone(Editor.editing_field)
    /\ Len(Editor.attributes) = 3
    /\ Editor.selected_attribute_index < 3
    /\ Editor.attributes[Editor.selected_attribute_index + 1][1]
          = Unwrap(Editor.range_key_schema).name

\* C2: whenever an editor exists, its attribute sequence has a row named
\* with the hash-key name, and one named with the range-key name when the
\* schema declares a range key.
C2_KeyRowsPresent ==
    IsSome(app.item_editor) =>
        /\ \E i \in 1..Len(Editor.attributes) :
              Editor.attributes[i][1] = Editor.hash_key_schema.name
        /\ IsSome(Editor.range_key_schema) =>
              \E i \in 1..Len(Editor.attributes) :
                 Editor.attributes[i][1] = Unwrap(Editor.range_key_schema).name

\* an editor on a table with a range key, cut down to its two key rows by Ctrl+D
C2_Witness ==
    /\ IsSome(app.item_editor)
    /\ Editor.mode = "Edit"
    /\ IsSome(Editor.range_key_schema)
    /\ key = Some(KeyCtrl("d"))
    /\ Len(Editor.attributes) = 2

\* C3: the selected index stays within 0..attributes.len(); Up at 0 and Down
\* at attributes.len() leave it where it is.
C3_SelectedInBounds ==
    /\ [](IsSome(app.item_editor) =>
             Editor.selected_attribute_index \in 0..Len(Editor.attributes))
    /\ [][ /\ (CommandIs(KeyCode("Up")) /\ Editor.selected_attribute_index = 0) =>
                 /\ IsSome(app'.item_editor)
                 /\ Unwrap(app'.item_editor).selected_attribute_index = 0
           /\ (CommandIs(KeyCode("Down"))
                  /\ Editor.selected_attribute_index = Len(Editor.attributes)) =>
                 /\ IsSome(app'.item_editor)
                 /\ Unwrap(app'.item_editor).selected_attribute_index
                        = Len(Unwrap(app'.item_editor).attributes) ]_vars

\* Down has been pressed and the selection is on the position past the last row
C3_Witness ==
    /\ IsSome(app.item_editor)
    /\ key = Some(KeyCode("Down"))
    /\ Len(Editor.attributes) = 2
    /\ Editor.selected_attribute_index = Len(Editor.attributes)

----------------------------------------------------------------------------
(* The table creation wizard.                                               *)

\* the loop iterations that deliver the key events keys one after another,
\* every backend call succeeding (computed in runs of 16 iterations)
TypeKeys(m, keys) ==
    LET n == Len(keys)
        run[b \in 0..(n + 15) \div 16] ==
            IF b = 0 THEN m
            ELSE Then(run[b - 1], LAMBDA mb :
                    LET hi == IF 16 * b < n THEN 16 * b ELSE n
                        typed[i \in 16 * (b - 1)..hi] ==
                            IF i = 16 * (b - 1) THEN mb
                            ELSE Then(typed[i - 1], LAMBDA t :
                                    iterate_key(Continue(t), keys[i], AllOk))
                    IN  typed[hi])
    IN  run[(n + 15) \div 16]

\* The iterations that open the wizard and fill in the two names: startup,
\* the on-demand describe, 'c', the table name, Tab, the hash key name, and
\* Tab until the table name is the field again.
WizardEntry(table_name, hash_key_name) ==
    Then(Startup(AllOk.list), LAMBDA m0 :
    Then(iterate_idle(Continue(m0), AllOk), LAMBDA m1 :
        TypeKeys(m1, <<KeyChar("c")>>
                     \o [i \in 1..Len(table_name) |-> KeyChar(table_name[i])]
                     \o <<KeyCode("Tab")>>
                     \o [i \in 1..Len(hash_key_name) |-> KeyChar(hash_key_name[i])]
                     \o <<KeyCode("Tab"), KeyCode("Tab"), KeyCode("Tab")>>)))

\* the table names the operator has typed when the model takes over
WizardNames ==
    {<<>>, <<"a", "b">>, <<"o", "r", "d", "e", "r", "s">>,
     Repeat("a", MaxTableNameLen), Repeat("a", MaxTableNameLen + 1)}

\* a key event dispatched to handle_wizard_keys while the wizard is at step
WizardKey(step, K) ==
    /\ app.state = TableCreationWizard
    /\ app.wizard_state.step = step
    /\ \E k \in K : Step(k)

WizardKeys(chars) ==
    {KeyCode(c) : c \in {"Enter", "Tab", "Backspace"}} \cup {KeyChar(c) : c \in chars}

InitWizard ==
    /\ prog = "dynamodb-tui"
    /\ \E table_name \in WizardNames, hash_key_name \in {<<"p">>} :
          \E m \in {WizardEntry(table_name, hash_key_name)} :
              /\ app = m.app
              /\ mgr = m.mgr
              /\ ev = m.ev
    /\ key = Some(KeyCode("Tab"))
    /\ quit = FALSE
    /\ panicked = FALSE
    /\ ec2 = None

\* Esc leaves the wizard whatever its step is; the operator of the model
\* presses it at the first step.  'c' opens the wizard again once it is left
\* or has created its table.
NextWizard ==
    \/ /\ prog = "dynamodb-tui"
       /\ WizardKey("BasicConfig", WizardKeys({"x"}) \cup {KeyCode("Esc")})
    \/ /\ prog = "dynamodb-tui"
       /\ WizardKey("BillingConfig", WizardKeys({"p", "o", "0"}))
    \/ /\ prog = "dynamodb-tui"
       /\ TablesViewKey({KeyChar("c")})

SpecWizard == InitWizard /\ [][NextWizard]_vars

----------------------------------------------------------------------------
(* Properties of the wizard.                                                *)

\* the backend operation op was issued in the iteration that just ended
Issued(op) == \E i \in 1..Len(ev) : ev[i].kind = "call" /\ ev[i].op = op

\* what the current step of the wizard requires of its fields
StepRequirement(ws) ==
    IF ws.step = "BasicConfig"
    THEN /\ ByteLen(ws.table_name) \in 3..255
         /\ Len(ws.hash_key_name) > 0
         /\ ws.has_range_key => Len(ws.range_key_name) > 0
    ELSE IF ws.step = "BillingConfig"
    THEN ws.billing_mode = "Provisioned" =>
            \A text \in {ws.read_capacity, ws.write_capacity} :
                IsSome(ParseI64(text)) /\ Unwrap(ParseI64(text)) >= 1
    ELSE TRUE

C5_CreateOnlyOnConfirmAtReview ==
    [][/\ Issued("create_table")'
            => /\ app.state = TableCreationWizard
               /\ app.wizard_state.step = "Review"
               /\ key' = Some(KeyCode("Enter"))
       /\ (/\ app.state = TableCreationWizard
           /\ app.wizard_state.step = "BillingConfig"
           /\ app'.wizard_state.step = "Review")
            => /\ ~Issued("create_table")'
               /\ app'.state = TableCreationWizard]_vars

----------------------------------------------------------------------------
(* The delete confirmation.                                                 *)

\* a key event dispatched to handle_delete_confirmation_keys
DeleteConfirmationKey(K) == IsDeleteConfirmation(app.state) /\ \E k \in K : Step(k)

ConfirmKeys == {KeyChar("y"), KeyChar("Y")}
DenyKeys == {KeyChar("n"), KeyChar("N"), KeyCode("Esc")}

NextDelete ==
    \/ /\ prog = "dynamodb-tui"
       /\ TablesViewKey({KeyChar("d"), KeyCode("Down"), KeyCode("Enter")})
    \/ /\ prog = "dynamodb-tui"
       /\ ItemsViewKey({KeyChar("d"), KeyCode("Down"), KeyCode("Esc")})
    \/ /\ prog = "dynamodb-tui"
       /\ DeleteConfirmationKey(ConfirmKeys \cup DenyKeys
                                \cup {KeyCode("Enter"), KeyChar("d")})
    \/ Tick

SpecDelete == Init /\ [][NextDelete]_vars

----------------------------------------------------------------------------
(* Properties of the delete confirmation.                                   *)

\* the arguments of the calls of op issued in the iteration that just ended
Args(op) == {ev[i].arg : i \in {j \in 1..Len(ev) : ev[j].kind = "call" /\ ev[j].op = op}}

\* the primary key of the record selected in the items view
SelectedRecordKey ==
    LET table == Unwrap(selected_table(app))
        item == Unwrap(selected_item(app))
        names == {table.hash_key.name}
                 \cup (IF IsSome(table.range_key)
                       THEN {Unwrap(table.range_key).name} ELSE {})
    IN  <<table.name, [n \in names \cap DOMAIN item.attributes |-> item.attributes[n]]>>

\* the view a confirmation was raised from
RaisedFrom(s) == IF s = DeleteConfirmationItem THEN TableItemsView ELSE RegularTablesView

\* C6: delete_table and delete_item are called only in an iteration whose key
\* event was 'y' or 'Y' dispatched to the delete confirmation; the call is
\* for the target taken when the confirmation was raised (the name of the
\* selected table; the record selected in the items view, which cannot change
\* while the confirmation is open); and after that iteration the state is the
\* view that raised the confirmation, whether the call succeeded or failed.
C6_DeleteOnlyOnConfirm ==
    [][/\ (Args("delete_table")' # {} \/ Args("delete_item")' # {})
            => IsDeleteConfirmation(app.state) /\ key' \in {Some(k) : k \in ConfirmKeys}
       /\ (app.state = RegularTablesView /\ IsDeleteConfirmation(app'.state))
            => app'.state = DeleteConfirmationTable(Unwrap(selected_table(app)).name)
       /\ (app.state = TableItemsView /\ IsDeleteConfirmation(app'.state))
            => /\ app'.state = DeleteConfirmationItem
               /\ IsSome(selected_item(app))
               /\ SelectedRecordKey' = SelectedRecordKey
       /\ (IsDeleteConfirmation(app.state) /\ IsDeleteConfirmation(app'.state))
            => /\ app'.state = app.state
               /\ app.state = DeleteConfirmationItem
                    => SelectedRecordKey' = SelectedRecordKey
       /\ (IsDeleteConfirmation(app.state) /\ key' \in {Some(k) : k \in ConfirmKeys})
            => /\ app'.state = RaisedFrom(app.state)
               /\ Args("delete_table")' =
                     IF app.state = DeleteConfirmationItem THEN {} ELSE {app.state[3]}
               /\ Args("delete_item")' =
                     IF app.state = DeleteConfirmationItem
                     THEN {SelectedRecordKey} ELSE {}]_vars

\* 'y' has just confirmed the deletion of the selected record, the call
\* failed, and the items view is back
C6_Witness ==
    /\ key = Some(KeyChar("y"))
    /\ Args("delete_item") # {}
    /\ ev[Len(ev)].kind = "log" /\ ev[Len(ev)].op = "Error"
    /\ app.state = TableItemsView

\* C7: 'n', 'N' and Esc in the delete confirmation return to the view that
\* raised it, raise no pending flag, call neither delete operation and leave
\* the table catalog, the record page and both selections as they were; a
\* key that neither confirms nor denies leaves the application state as it was.
C7_DenyFrame ==
    [][IsDeleteConfirmation(app.state) =>
        /\ key' \in {Some(k) : k \in DenyKeys}
            => /\ app'.state = RaisedFrom(app.state)
               /\ ~app'.pending_delete_item
               /\ app'.pending_delete_table = None
               /\ Args("delete_table")' = {} /\ Args("delete_item")' = {}
               /\ app'.table_names = app.table_names
               /\ app'.tables = app.tables
               /\ app'.current_items = app.current_items
               /\ app'.selected_table_index = app.selected_table_index
               /\ app'.selected_item_index = app.selected_item_index
        /\ key' \notin {Some(k) : k \in ConfirmKeys \cup DenyKeys} \cup {None}
            => app' = app /\ mgr' = mgr]_vars

\* 'N' has just denied the deletion of a record: the items view is back with
\* its selection
C7_Witness ==
    /\ key = Some(KeyChar("N"))
    /\ app.state = TableItemsView
    /\ IsSome(selected_item(app))

----------------------------------------------------------------------------
(* The filterable selectors: the region selector of dynamodb-tui, the       *)
(* region selector and the resize type selector of ec2-tui.  A behaviour    *)
(* starts with one of the selectors just opened and ends when it closes.    *)

\* what the operator of ec2-tui is allowed to type in the current state
Ec2Typable(k) ==
    IF ec2.show_resize_dialog
    THEN LET at == UnwrapOr(ec2.resize_selector_state, 0)
         IN  IF (k.code = "Char" /\ k.ch = "j") \/ k.code = "Down"
             THEN at < MaxScroll \/ at >= Len(ec2.filtered_resize_types) - 1
             ELSE IF (k.code = "Char" /\ k.ch = "k") \/ k.code = "Up"
             THEN at <= MaxScroll
             ELSE k.code = "Char" => Len(ec2.resize_type_filter) < MaxFilter
    ELSE IF ec2.show_instance_filter
    THEN k.code = "Char" => Len(ec2.instance_filter) < MaxFilter
    ELSE IF ec2.show_region_selector
    THEN (k.code = "Char" /\ k.ch \notin {"g", "j", "k"})
             => Len(ec2.region_filter) < MaxFilter
    ELSE TRUE

\* An iteration of ec2-tui in which event::poll delivered the key event k.
\* The environment chooses the result of the calls the iteration issues:
\* load_instances fails or returns no instance or the two instances of the
\* model, resize_instance succeeds or fails.
Ec2Step(k) ==
    /\ prog = "ec2-tui"
    /\ ~quit
    /\ Ec2Typable(k)
    /\ \E start \in {[app |-> ec2, ev |-> <<>>, quit |-> FALSE]} :
       \E ok \in {ec2_iterate_key(start, k, Ec2AllOk)} :
       \E r \in [load : IF "load_instances" \in Ops(ok)
                       THEN { <<"Err">>, <<"Ok", <<>>>>, Ec2AllOk.load }
                       ELSE {Ec2AllOk.load},
                 resize : IF "resize_instance" \in Ops(ok)
                          THEN CallOutcomes
                          ELSE {Ec2AllOk.resize}] :
       \E m \in {IF r = Ec2AllOk THEN ok ELSE ec2_iterate_key(start, k, r)} :
              /\ ec2' = m.app
              /\ ev' = m.ev
              /\ quit' = m.quit
    /\ key' = Some(k)
    /\ UNCHANGED <<app, mgr, panicked, prog>>

\* a key event dispatched to handle_region_selector_keys
RegionSelectorKey(K) ==
    prog = "dynamodb-tui" /\ app.state = RegionSelector /\ \E k \in K : Step(k)

InitSelectors ==
    /\ quit = FALSE
    /\ panicked = FALSE
    /\ \/ /\ prog = "dynamodb-tui"
          /\ \E m \in {Then(Startup(AllOk.list), LAMBDA m0 :
                       Then(iterate_idle(Continue(m0), AllOk), LAMBDA m1 :
                            iterate_key(Continue(m1), KeyChar("g"), AllOk)))} :
                /\ app = m.app
                /\ mgr = m.mgr
                /\ ev = m.ev
          /\ key = Some(KeyChar("g"))
          /\ ec2 = None
       \/ /\ prog = "ec2-tui"
          /\ \E k \in {KeyChar("g"), KeyCtrl("r")} :
             \E m \in {ec2_iterate_key(Continue(Ec2Startup(Ec2AllOk.load)),
                                       k, Ec2AllOk)} :
                /\ ec2 = m.app
                /\ ev = m.ev
                /\ key = Some(k)
          /\ app = None
          /\ mgr = None

\* The characters typed into the region filters are a letter of the region
\* names in both cases and, in dynamodb-tui, a character no region name
\* holds, in ec2-tui, the pattern characters of RegexNew; those typed into
\* the resize type filter are a letter of the type names in both cases and
\* a letter no type name holds.
NextSelectors ==
    \/ /\ prog = "dynamodb-tui"
       /\ RegionSelectorKey(
              {KeyCode(c) : c \in {"Enter", "Esc", "Up", "Down", "Backspace"}}
              \cup {KeyChar(c) : c \in {"s", "S", "."}})
    \/ /\ prog = "ec2-tui"
       /\ ec2.show_region_selector
       /\ \E k \in {KeyCode(c) : c \in {"Enter", "Esc", "Down", "Backspace"}}
                  \cup {KeyChar(c) : c \in {"j", "k", "g", "s", "S", ".", "[", "]"}} :
              Ec2Step(k)
    \/ /\ prog = "ec2-tui"
       /\ ec2.show_resize_dialog
       /\ \E k \in {KeyCode(c) : c \in {"Enter", "Esc", "Backspace"}}
                  \cup {KeyChar(c) : c \in {"j", "k", "z", "Z", "w"}} :
              Ec2Step(k)

SpecSelectors == InitSelectors /\ [][NextSelectors]_vars

\* C8: in each of the three selectors, a selection that is present while the
\* filtered sequence is non-empty is a position of the filtered sequence.
C8_SelectionInFiltered ==
    /\ (prog = "dynamodb-tui" /\ Len(app.filtered_regions) > 0
            /\ IsSome(app.region_selector_state))
           => Unwrap(app.region_selector_state)
                  \in 0..(Len(app.filtered_regions) - 1)
    /\ (prog = "ec2-tui" /\ Len(ec2.filtered_regions) > 0
            /\ IsSome(ec2.region_selector_state))
           => Unwrap(ec2.region_selector_state)
                  \in 0..(Len(ec2.filtered_regions) - 1)
    /\ (prog = "ec2-tui" /\ Len(ec2.filtered_resize_types) > 0
            /\ IsSome(ec2.resize_selector_state))
           => Unwrap(ec2.resize_selector_state)
                  \in 0..(Len(ec2.filtered_resize_types) - 1)

\* the region selector of ec2-tui, filtered down to part of the catalog, has
\* wrapped from the top to the bottom of the filtered sequence
C8_Witness ==
    /\ prog = "ec2-tui"
    /\ ec2.show_region_selector
    /\ key = Some(KeyChar("k"))
    /\ Len(ec2.region_filter) > 0
    /\ Len(ec2.filtered_regions) \in 2..(Len(Ec2Regions) - 1)
    /\ ec2.region_selector_state = Some(Len(ec2.filtered_regions) - 1)

\* the entries of a catalog a filter text stands for: those the text matches
\* as a regular expression when it compiles as one, otherwise those that
\* hold it as a case-insensitive substring
Matched(catalog, text) ==
    IF IsSome(RegexNew(text))
    THEN SelectSeq(catalog, LAMBDA entry : is_match(Unwrap(RegexNew(text)), entry))
    ELSE SelectSeq(catalog, LAMBDA entry : Contains(ToLower(entry), ToLower(text)))

\* C9: in the region selector of dynamodb-tui, a change of the filter text
\* that leaves no entry clears the selection, and Enter pressed while no
\* entry is left changes nothing and issues no backend call.
C9_EmptyFilterClearsSelection ==
    [][(prog = "dynamodb-tui" /\ app.state = RegionSelector) =>
          /\ (app'.region_filter # app.region_filter
                  /\ Len(app'.filtered_regions) = 0)
                 => IsNone(app'.region_selector_state)
          /\ (Len(app.region_filter) > 0 /\ Len(app.filtered_regions) = 0
                  /\ key' = Some(KeyCode("Enter")))
                 => /\ app' = app
                    /\ mgr' = mgr
                    /\ \A i \in 1..Len(ev') : ev'[i].kind # "call"]_vars

\* C10: after every change of the filter text of a region selector, the
\* filtered sequence is the catalog entries the text stands for, in catalog
\* order, and the selector is still shown.
C10_FilterIsRegexOrSubstring ==
    [][/\ (prog = "dynamodb-tui" /\ app.state = RegionSelector
               /\ app'.region_filter # app.region_filter)
              => /\ app'.filtered_regions
                        = Matched(AvailableRegions, app'.region_filter)
                 /\ app'.state = RegionSelector
                 /\ ~panicked'
       /\ (prog = "ec2-tui" /\ ec2.show_region_selector
               /\ ec2'.show_region_selector
               /\ ec2'.region_filter # ec2.region_filter)
              => /\ ec2'.filtered_regions
                        = Matched(Ec2Regions, ec2'.region_filter)
                 /\ ~quit']_vars

\* C11: Enter in the region selector of dynamodb-tui on a selection that
\* addresses an entry of the filtered sequence makes that entry the current
\* region, shows the tables view, and the same iteration lists the tables
\* of that region.
C11_ConfirmReloads ==
    [][(prog = "dynamodb-tui" /\ app.state = RegionSelector
            /\ key' = Some(KeyCode("Enter"))
            /\ IsSome(app.region_selector_state)
            /\ IsSome(Get(app.filtered_regions, Unwrap(app.region_selector_state))))
           => LET entry == Unwrap(Get(app.filtered_regions,
                                      Unwrap(app.region_selector_state)))
              IN  /\ app'.current_region = entry
                  /\ app'.state = RegularTablesView
                  /\ mgr' = entry
                  /\ Issued("list")']_vars


\* C12: every iteration that changes the state from another state to the
\* items view issues its scans from page 1 with no continuation key, and if
\* it issues no scan it leaves the pagination at page 1 with no continuation
\* key for the next scan.
C12_PaginationResetOnEntry ==
    [][(prog = "dynamodb-tui" /\ app.state # TableItemsView
            /\ app'.state = TableItemsView)
          => /\ \A arg \in Args("scan")' : arg[3] = None
             /\ Args("scan")' = {}
                  => /\ app'.pagination.current_page = 1
                     /\ app'.pagination.last_evaluated_key = None]_vars


\* C13: a table described in one iteration is not described again in the
\* next iteration unless that iteration lists the tables first; in
\* particular an iteration without a key event does not repeat the describe
\* call of the iteration before it.
C13_DescribeOncePerListing ==
    [][(prog = "dynamodb-tui" /\ Args("list")' = {})
          => Args("describe") \cap Args("describe")' = {}]_vars


\* C14: every iteration of the loop issues at most one backend call.
C14_OneCallPerIteration ==
    prog = "dynamodb-tui" => Cardinality({i \in 1..Len(ev) : ev[i].kind = "call"}) <= 1


\* C15: every backend call is issued while the loading indicator is set, and
\* the indicator is clear at the end of every iteration.
C15_LoadingAroundCalls ==
    prog = "dynamodb-tui" =>
        /\ \A i \in 1..Len(ev) : ev[i].kind = "call" => ev[i].loading
        /\ ~app.is_loading


\* the backend operations that failed in the iteration that just ended, as
\* far as their effects tell: a describe that left the details of the
\* selected table missing, a delete_table not followed by a list, a
\* delete_item not followed by a scan
FailedCalls ==
    {op \in {"describe", "delete_table", "delete_item"} :
        /\ Issued(op)
        /\ op = "describe" =>
              Get(app.tables, Unwrap(app.selected_table_index)) = Some(None)
        /\ op = "delete_table" => ~Issued("list")
        /\ op = "delete_item" => ~Issued("scan")}

\* C16: an iteration in which a backend call failed leaves a status message,
\* appends an Error-level log entry and ends in the tables view or the items
\* view.
C16_FailureReported ==
    (prog = "dynamodb-tui" /\ FailedCalls # {})
        => /\ app.status_message # ""
           /\ \E i \in 1..Len(ev) : ev[i].kind = "log" /\ ev[i].op = "Error"
           /\ app.state \in {RegularTablesView, TableItemsView}


----------------------------------------------------------------------------
(* The value edit of the item editor.  A behaviour starts with the value of *)
(* a row of an existing record being edited: the buffer as Enter filled it, *)
(* or cleared and retyped.                                                  *)

\* 'e' on the first or the second record of a page, Down to a row, Enter,
\* and for a retyped buffer Backspace over the displayed value and one of the
\* texts the operator types in its place
InitCommit ==
    /\ prog = "dynamodb-tui"
    /\ \E entry \in {<<"users", "Last", FALSE>>, <<"users", "More", TRUE>>,
                     <<"orders", "Last", FALSE>>} :
       \E downs \in 0..2 :
       \E typed \in {None} \cup {Some(b) : b \in
            { <<>>, <<"1">>, <<"4", "f", "6">>, <<"4", "F">>, <<"0", "0", "f", "f">>,
              <<"z", "z", "4", "f">>, <<"+", "f">>, <<"a", "e'">>,
              <<"Y", "E", "S">>, <<"t", "r", "u", "e">>,
              <<"m", "a", "y", "b", "e">> }} :
       \E keys \in {Repeat(KeyCode("Down"), downs) \o <<KeyCode("Enter")>>
                    \o (IF IsNone(typed) THEN <<>>
                        ELSE Repeat(KeyCode("Backspace"), 5)
                             \o [i \in 1..Len(Unwrap(typed)) |->
                                    KeyChar(Unwrap(typed)[i])])} :
       \E m \in {TypeKeys(EditorEntry(entry[1], entry[2], entry[3], KeyChar("e")),
                          keys)} :
          /\ IsSome(m.app.item_editor)
          /\ IsSome(Unwrap(m.app.item_editor).editing_field)
          /\ app = m.app
          /\ mgr = m.mgr
          /\ ev = m.ev
          /\ key = Some(keys[Len(keys)])
    /\ quit = FALSE
    /\ panicked = FALSE
    /\ ec2 = None

NextCommit ==
    /\ prog = "dynamodb-tui"
    /\ ItemEditorKey({KeyCode(c) : c \in {"Enter", "Esc", "Up", "Down", "Backspace"}})

SpecCommit == InitCommit /\ [][NextCommit]_vars

----------------------------------------------------------------------------
(* Properties of the value edit.                                            *)

\* C17: no iteration of dynamodb-tui panics.
C17_NoPanic == prog = "dynamodb-tui" => ~panicked


\* the bytes of the pairs of hexadecimal digits of a text, read left to
\* right: a pair with a character that is no hexadecimal digit and an
\* unpaired last character contribute nothing
HexPairBytes(buffer) ==
    LET pairs == [j \in 1..(Len(buffer) \div 2) |-> <<buffer[2 * j - 1], buffer[2 * j]>>]
        hex == SelectSeq(pairs, LAMBDA p : IsHexDigit(p[1]) /\ IsHexDigit(p[2]))
    IN  [j \in 1..Len(hex) |-> 16 * HexDigitValue(hex[j][1]) + HexDigitValue(hex[j][2])]

\* the value a commit is to store, by the tag of the value it replaces
ValueByTag(tag, buffer) ==
    CASE tag = "String" -> AttributeValue("String", buffer)
      [] tag = "Number" -> AttributeValue("Number", buffer)
      [] tag = "Boolean" ->
            AttributeValue("Boolean",
                           ToLower(buffer) \in {<<"t", "r", "u", "e">>, <<"1">>,
                                                <<"y", "e", "s">>})
      [] tag = "Binary" -> AttributeValue("Binary", HexPairBytes(buffer))
      [] OTHER -> AttributeValue("String", buffer)

\* C18: Enter while the value of a row is edited never fails and replaces
\* the value of the selected row, and nothing else in the attribute sequence,
\* by the value its tag gives the buffer: the buffer itself for String and
\* Number, true for a Boolean exactly when the lowercased buffer is "true",
\* "1" or "yes", the bytes of the hexadecimal pairs for Binary, and a String
\* holding the buffer for any other tag.
C18_CommitByTag ==
    [][(/\ prog = "dynamodb-tui"
        /\ app.state = ItemEditor
        /\ IsSome(app.item_editor)
        /\ Editor.editing_field = Some("Value")
        /\ Editor.selected_attribute_index < Len(Editor.attributes)
        /\ key' = Some(KeyCode("Enter")))
          => /\ ~panicked'
             /\ IsSome(app'.item_editor)
             /\ Editor'.attributes =
                    [Editor.attributes EXCEPT
                        ![Editor.selected_attribute_index + 1] =
                            <<@[1], ValueByTag(@[2].tag, Editor.input_buffer)>>]]_vars


\* C19: Enter on a row holding Binary(b) starts the value edit with a buffer
\* of two lowercase hexadecimal digits per byte of b, high digit first; and
\* Enter on that buffer, unmodified, stores Binary(b) in the row again.
C19_BinaryRoundTrip ==
    [][(/\ prog = "dynamodb-tui"
        /\ app.state = ItemEditor
        /\ IsSome(app.item_editor)
        /\ Editor.selected_attribute_index < Len(Editor.attributes)
        /\ Editor.attributes[Editor.selected_attribute_index + 1][2].tag = "Binary"
        /\ key' = Some(KeyCode("Enter")))
          => LET b == Editor.attributes[Editor.selected_attribute_index + 1][2].val
                 digit(n) == HexDigits[n + 1]
                 shown == [i \in 1..(2 * Len(b)) |->
                              IF i % 2 = 1 THEN digit(b[(i + 1) \div 2] \div 16)
                              ELSE digit(b[i \div 2] % 16)]
             IN  /\ IsNone(Editor.editing_field)
                    => /\ Editor'.editing_field = Some("Value")
                       /\ Editor'.input_buffer = shown
                       /\ Editor'.attributes = Editor.attributes
                 /\ (Editor.editing_field = Some("Value") /\ Editor.input_buffer = shown)
                    => /\ ~panicked'
                       /\ Editor'.attributes = Editor.attributes
                       /\ IsNone(Editor'.editing_field)]_vars

\* Enter has just started the value edit of a row holding the two bytes
\* 0x00 and 0xff: the buffer shows "00ff"
C19_Witness ==
    /\ key = Some(KeyCode("Enter"))
    /\ app.state = ItemEditor
    /\ IsSome(app.item_editor)
    /\ Editor.editing_field = Some("Value")
    /\ Editor.attributes[Editor.selected_attribute_index + 1][2]
          = AttributeValue("Binary", <<0, 255>>)
    /\ Editor.input_buffer = <<"0", "0", "f", "f">>


----------------------------------------------------------------------------
(* Adding and deleting rows in the item editor, checked under SpecEditor.   *)

\* C20: Ctrl+N while no field is edited appends a row and selects it, and
\* Ctrl+D pressed next removes that row again: the attribute sequence is
\* the one Ctrl+N found.
C20_AddThenDelete ==
    [][(/\ prog = "dynamodb-tui"
        /\ app.state = ItemEditor
        /\ IsSome(app.item_editor)
        /\ IsNone(Editor.editing_field))
          => /\ key' = Some(KeyCtrl("n"))
                => /\ Len(Editor'.attributes) = Len(Editor.attributes) + 1
                   /\ SubSeq(Editor'.attributes, 1, Len(Editor.attributes))
                         = Editor.attributes
                   /\ Editor'.selected_attribute_index = Len(Editor.attributes)
             /\ (key = Some(KeyCtrl("n")) /\ key' = Some(KeyCtrl("d")))
                => Editor'.attributes
                      = SubSeq(Editor.attributes, 1, Len(Editor.attributes) - 1)]_vars


----------------------------------------------------------------------------
(* The whole application: from startup, the keys that change the view, in   *)
(* whatever view is shown, and iterations without a key event.              *)

NextApp ==
    \/ /\ prog = "dynamodb-tui"
       /\ TablesViewKey({KeyChar(c) : c \in {"?", "g", "c", "d", "r"}}
                        \cup {KeyCode("Enter"), KeyCode("Down")})
    \/ /\ prog = "dynamodb-tui"
       /\ ItemsViewKey({KeyChar("?"), KeyChar("i"), KeyChar("d"),
                        KeyCode("Enter"), KeyCode("Esc")})
    \/ /\ prog = "dynamodb-tui"
       /\ RegionSelectorKey({KeyChar("?"), KeyChar("2"), KeyCode("Enter"),
                             KeyCode("Esc")})
    \/ /\ app.state \in {TableCreationWizard, Help}
       /\ \E k \in {KeyChar("?"), KeyCode("Esc")} : Step(k)
    \/ /\ prog = "dynamodb-tui"
       /\ ItemEditorKey({KeyChar("?"), KeyCode("Esc"), KeyCode("Enter"), KeyCtrl("s")})
    \/ /\ prog = "dynamodb-tui"
       /\ DeleteConfirmationKey({KeyChar("?"), KeyChar("y"), KeyCode("Esc")})
    \/ Tick

SpecApp == Init /\ [][NextApp]_vars


----------------------------------------------------------------------------
(* Properties of the views.                                                 *)

\* C21: '?' pressed in any view other than the help view shows the help
\* view; a key pressed in the help view leaves it with the wizard, the
\* editor, the region filter and the selections as they were.
C21_HelpFromEveryView ==
    [][(prog = "dynamodb-tui" /\ key' = Some(KeyChar("?")))
          => IF app.state # Help
             THEN app'.state = Help
             ELSE /\ app'.state # Help
                  /\ app'.wizard_state = app.wizard_state
                  /\ app'.item_editor = app.item_editor
                  /\ app'.region_filter = app.region_filter
                  /\ app'.selected_table_index = app.selected_table_index
                  /\ app'.selected_item_index = app.selected_item_index]_vars


\* C22: every step that enters the wizard from another view leaves the
\* wizard state equal to its initial value.
C22_WizardResetOnEntry ==
    [][(prog = "dynamodb-tui" /\ app.state # TableCreationWizard
            /\ app'.state = TableCreationWizard)
          => app'.wizard_state = WizardNew]_vars

\* 'c' has just opened the wizard again, in its initial state, after the
\* session every behaviour starts in was left or created its table
C22_Witness ==
    /\ key = Some(KeyChar("c"))
    /\ app.state = TableCreationWizard
    /\ app.wizard_state = WizardNew


\* C23: there is an editor exactly when the item editor is the view; the
\* item editor is entered only from the items view by 'i', 'e' or Enter;
\* and Esc and Ctrl+S, pressed while no field is edited, discard the editor
\* and show the items view.
C23_EditorLifecycle ==
    [][prog = "dynamodb-tui" =>
        /\ IsSome(app'.item_editor) <=> app'.state = ItemEditor
        /\ (app.state # ItemEditor /\ app'.state = ItemEditor)
              => /\ app.state = TableItemsView
                 /\ key' \in {Some(KeyChar("i")), Some(KeyChar("e")),
                              Some(KeyCode("Enter"))}
        /\ (/\ app.state = ItemEditor
            /\ IsNone(Editor.editing_field)
            /\ key' \in {Some(KeyCode("Esc")), Some(KeyCtrl("s"))})
              => /\ IsNone(app'.item_editor)
                 /\ app'.state = TableItemsView]_vars


----------------------------------------------------------------------------
(* Properties of the commands of the item editor, checked under SpecEditor. *)

\* the selected row of the editor and its position in the sequence
SelectedRow == Editor.attributes[Editor.selected_attribute_index + 1]

SubEditKeyIs(field, k) ==
    /\ prog = "dynamodb-tui"
    /\ app.state = ItemEditor
    /\ IsSome(app.item_editor)
    /\ Editor.editing_field = Some(field)
    /\ key' = Some(k)

\* C25: Enter while the name of the selected row is edited gives the row the
\* buffer as its name and changes nothing else of the attribute sequence or
\* the selected index; the edit ends and the buffer is empty.
C25_KeyCommitFrame ==
    [][(SubEditKeyIs("Key", KeyCode("Enter"))
            /\ Editor.selected_attribute_index < Len(Editor.attributes))
          => /\ IsSome(app'.item_editor)
             /\ app'.state = ItemEditor
             /\ Editor'.attributes =
                   [Editor.attributes EXCEPT
                       ![Editor.selected_attribute_index + 1] =
                           <<Editor.input_buffer, @[2]>>]
             /\ Editor'.selected_attribute_index = Editor.selected_attribute_index
             /\ IsNone(Editor'.editing_field)
             /\ Editor'.input_buffer = <<>>]_vars

\* Enter has just renamed the row "n" of a record of "orders" to "a": the
\* row keeps its string set and its place after the two key rows
C25_Witness ==
    /\ key = Some(KeyCode("Enter"))
    /\ app.state = ItemEditor
    /\ IsSome(app.item_editor)
    /\ IsNone(Editor.editing_field)
    /\ Editor.selected_attribute_index = 2
    /\ Len(Editor.attributes) = 3
    /\ SelectedRow = <<<<"a">>, AttributeValue("StringSet", <<"y">>)>>


\* C26: while a field of the selected row is edited, a character key appends
\* its character to the input buffer and Backspace removes the buffer's last
\* character, changing nothing else; Esc ends the edit with an empty buffer,
\* changing nothing else.  The attribute sequence and the selected index are
\* therefore, when Esc ends the edit, what they were when it started.
C26_SubEditFrame ==
    [][(/\ prog = "dynamodb-tui"
        /\ app.state = ItemEditor
        /\ IsSome(app.item_editor)
        /\ IsSome(Editor.editing_field)
        /\ key' # None
        /\ Unwrap(key').code \in {"Char", "Backspace", "Esc"})
          => LET k == Unwrap(key')
                 buffer == Editor.input_buffer
             IN  /\ ~panicked' /\ ~quit'
                 /\ app' = [app EXCEPT !.item_editor = Some(
                       IF k.code = "Char"
                       THEN [Editor EXCEPT !.input_buffer = buffer \o <<k.ch>>]
                       ELSE IF k.code = "Backspace"
                       THEN [Editor EXCEPT !.input_buffer =
                                [i \in 1..(IF buffer = <<>> THEN 0 ELSE Len(buffer) - 1)
                                    |-> buffer[i]]]
                       ELSE [Editor EXCEPT !.input_buffer = <<>>,
                                           !.editing_field = None])]]_vars

\* Esc has just ended an edit of the name or the value of a row that is no
\* key row: no field is edited and the buffer is empty
C26_Witness ==
    /\ key = Some(KeyCode("Esc"))
    /\ app.state = ItemEditor
    /\ IsSome(app.item_editor)
    /\ IsNone(Editor.editing_field)
    /\ Editor.input_buffer = <<>>
    /\ Editor.selected_attribute_index < Len(Editor.attributes)
    /\ ~OnKeyRow(Editor)


\* C27: Ctrl+D on a selected row that is no key row removes that row and
\* keeps the other rows in their order, and the selected index becomes the
\* smaller of its previous value and the new length of the sequence.
C27_DeleteAttribute ==
    [][(/\ prog = "dynamodb-tui"
        /\ CommandIs(KeyCtrl("d"))
        /\ Editor.selected_attribute_index < Len(Editor.attributes)
        /\ ~OnKeyRow(Editor))
          => LET idx == Editor.selected_attribute_index
                 rows == Editor.attributes
             IN  /\ IsSome(app'.item_editor)
                 /\ Editor'.attributes =
                       [i \in 1..(Len(rows) - 1) |->
                           IF i <= idx THEN rows[i] ELSE rows[i + 1]]
                 /\ Editor'.selected_attribute_index =
                       IF idx < Len(rows) - 1 THEN idx ELSE Len(rows) - 1]_vars


----------------------------------------------------------------------------
(* Properties of the wizard's keys, checked under SpecWizard.               *)

\* a text without its last character
WithoutLast(text) == [i \in 1..(IF text = <<>> THEN 0 ELSE Len(text) - 1) |-> text[i]]

C29_ProvisionedCapacitiesParsed ==
    prog = "dynamodb-tui" =>
        \A config \in Args("create_table") :
            config.billing_mode = "Provisioned"
                => /\ IsSome(config.read_capacity)
                   /\ Unwrap(config.read_capacity) >= 1
                   /\ config.read_capacity = ParseI64(app.wizard_state.read_capacity)
                   /\ IsSome(config.write_capacity)
                   /\ Unwrap(config.write_capacity) >= 1
                   /\ config.write_capacity = ParseI64(app.wizard_state.write_capacity)

\* Enter has just created a table with provisioned capacities 5 and 5
C29_Witness ==
    /\ key = Some(KeyCode("Enter"))
    /\ \E config \in Args("create_table") :
          /\ config.billing_mode = "Provisioned"
          /\ config.read_capacity = Some(5)
          /\ config.write_capacity = Some(5)


\* C30: the detail cache has one slot per table name.  An iteration that
\* lists the tables leaves every slot empty, but for the tables it describes
\* after the listing; an iteration that does not list them keeps the names,
\* and a slot changes only from empty to filled.  A filled slot holds the
\* detail of the name at its position.
C30_DetailCacheParallel ==
    [][prog = "dynamodb-tui" =>
        LET names == app'.table_names
            slots == app'.tables
        IN  /\ Len(slots) = Len(names)
            /\ \A i \in 1..Len(slots) :
                  IsSome(slots[i]) => Unwrap(slots[i]).name = names[i]
            /\ Issued("list")'
                  => \A i \in 1..Len(slots) :
                        IsSome(slots[i]) => names[i] \in Args("describe")'
            /\ ~Issued("list")'
                  => /\ names = app.table_names
                     /\ \A i \in 1..Len(slots) :
                           \/ slots[i] = app.tables[i]
                           \/ IsNone(app.tables[i]) /\ names[i] \in Args("describe")']_vars

\* 'r' has just listed the two tables again: the detail of the first one was
\* loaded after the listing and the slot of the second one is empty
C30_Witness ==
    /\ key = Some(KeyChar("r"))
    /\ Issued("list")
    /\ Len(app.table_names) = 2
    /\ IsSome(app.tables[1])
    /\ IsNone(app.tables[2])


\* C31: every create_table request carries a configuration that satisfies the
\* rules of BasicConfig: a table name of 3 to 255 bytes, a hash-key name that
\* is not empty, and a range-key name that is not empty when the table has a
\* range key.
C31_CreateSatisfiesBasicConfig ==
    prog = "dynamodb-tui" =>
        \A config \in Args("create_table") :
            /\ ByteLen(config.name) >= MinTableNameLen
            /\ ByteLen(config.name) <= MaxTableNameLen
            /\ Len(config.hash_key.name) > 0
            /\ IsSome(config.range_key) => Len(Unwrap(config.range_key).name) > 0

\* C32: the focused field of the wizard is a field of the current step.
C32_FocusBelongsToStep ==
    (prog = "dynamodb-tui" /\ app.state = TableCreationWizard) =>
        LET ws == app.wizard_state
        IN  /\ ws.step = "BasicConfig"
                => ws.current_field \in {"TableName", "HashKeyName", "HashKeyType",
                                         "HasRangeKey", "RangeKeyName", "RangeKeyType"}
            /\ ws.step = "BillingConfig"
                => ws.current_field \in {"BillingMode", "ReadCapacity", "WriteCapacity"}


----------------------------------------------------------------------------
(* Properties of the views of dynamodb-tui, checked under SpecApp.          *)

\* C33: in the items view, in the item editor and in the confirmation of a
\* record's deletion a table is selected and its detail is loaded; the items
\* view and the confirmation of a table's deletion are entered from the
\* tables view only for the selected table, whose detail is loaded already.
C33_SelectedTableCached ==
    [][prog = "dynamodb-tui" =>
        /\ app'.state \in {TableItemsView, ItemEditor, DeleteConfirmationItem}
              => /\ IsSome(selected_table(app'))
                 /\ Unwrap(app'.selected_table_index) < Len(app'.table_names)
        /\ (app.state = RegularTablesView /\ app'.state = TableItemsView)
              => IsSome(selected_table(app))
        /\ (app.state = RegularTablesView /\ IsDeleteConfirmation(app'.state))
              => /\ IsSome(selected_table(app))
                 /\ app'.state = DeleteConfirmationTable(Unwrap(selected_table(app)).name)]_vars

\* Enter has just opened the items view of the second table
C33_Witness ==
    /\ key = Some(KeyCode("Enter"))
    /\ app.state = TableItemsView
    /\ Issued("scan")
    /\ app.selected_table_index = Some(1)
    /\ IsSome(selected_table(app))


\* C34: when the loop polls for the next key event no pending action is
\* left: the flags of save, of the deletion of a record, of the deletion of
\* a table and of refresh are all clear.
C34_FlagsDrained ==
    prog = "dynamodb-tui" =>
        /\ ~app.pending_save_item
        /\ ~app.pending_delete_item
        /\ IsNone(app.pending_delete_table)
        /\ ~app.pending_refresh

\* 'y' has just confirmed the deletion of a record and the record was deleted
C34_Witness ==
    /\ key = Some(KeyChar("y"))
    /\ Issued("delete_item")
    /\ app.state = TableItemsView
    /\ ~app.pending_delete_item


----------------------------------------------------------------------------
(* Properties of the rows of the item editor, checked under SpecEditor.     *)

\* C35: Enter on a row, followed at once by Enter, leaves the row as it was,
\* value and type tag, whatever the variant of the value.
C35_EditConfirmIdentity ==
    [][(/\ prog = "dynamodb-tui"
        /\ app.state = ItemEditor
        /\ IsSome(app.item_editor)
        /\ key = Some(KeyCode("Enter"))
        /\ Editor.editing_field = Some("Value")
        /\ key' = Some(KeyCode("Enter")))
          => /\ IsSome(app'.item_editor)
             /\ Editor'.attributes = Editor.attributes]_vars


\* C36: the names of the rows of the editor are pairwise distinct.
C36_NamesDistinct ==
    (prog = "dynamodb-tui" /\ IsSome(app.item_editor)) =>
        \A i, j \in 1..Len(Editor.attributes) :
            Editor.attributes[i][1] = Editor.attributes[j][1] => i = j


\* C37: in an editor opened by create-record, every row named with the
\* hash-key name holds a value of the type the hash-key schema declares, and
\* every row named with the range-key name a value of the type the range-key
\* schema declares.
C37_CreateKeyTypes ==
    (prog = "dynamodb-tui" /\ IsSome(app.item_editor) /\ Editor.mode = "Create") =>
        \A i \in 1..Len(Editor.attributes) :
            LET row == Editor.attributes[i]
            IN  /\ row[1] = Editor.hash_key_schema.name
                      => row[2].tag = Editor.hash_key_schema.key_type
                /\ (IsSome(Editor.range_key_schema)
                        /\ row[1] = Unwrap(Editor.range_key_schema).name)
                      => row[2].tag = Unwrap(Editor.range_key_schema).key_type


\* C38: the scan that reloads the records after a successful save-record or
\* delete-record is issued with the continuation token of the scan that
\* produced the displayed page; the items view shows the page its entry
\* scanned, page 1 on the page counter, whose token is absent, so the reload
\* carries no continuation token.
C38_ReloadSamePage ==
    [][(/\ prog = "dynamodb-tui"
        /\ Issued("put_item")' \/ Issued("delete_item")'
        /\ app.pagination.current_page = 1)
          => \A arg \in Args("scan")' : arg[3] = None]_vars


----------------------------------------------------------------------------
(* Properties of ec2-tui.                                                   *)

\* C39: in the region selector and in the resize type selector of ec2-tui,
\* after every change of the filter text that leaves the filtered sequence
\* non-empty a selection is present and is a position of the filtered
\* sequence, also when the text before the change matched nothing; and Enter
\* pressed over a non-empty filtered sequence picks an entry, which closes
\* the selector.
C39_SelectionPresentAfterFilter ==
    [][prog = "ec2-tui" =>
          /\ (ec2.show_region_selector
                  /\ ec2'.region_filter # ec2.region_filter
                  /\ Len(ec2'.filtered_regions) > 0)
                 => /\ IsSome(ec2'.region_selector_state)
                    /\ Unwrap(ec2'.region_selector_state)
                           \in 0..(Len(ec2'.filtered_regions) - 1)
          /\ (ec2.show_resize_dialog
                  /\ ec2'.resize_type_filter # ec2.resize_type_filter
                  /\ Len(ec2'.filtered_resize_types) > 0)
                 => /\ IsSome(ec2'.resize_selector_state)
                    /\ Unwrap(ec2'.resize_selector_state)
                           \in 0..(Len(ec2'.filtered_resize_types) - 1)
          /\ (ec2.show_region_selector /\ Len(ec2.filtered_regions) > 0
                  /\ key' = Some(KeyCode("Enter")))
                 => ~ec2'.show_region_selector
          /\ (ec2.show_resize_dialog /\ Len(ec2.filtered_resize_types) > 0
                  /\ key' = Some(KeyCode("Enter")))
                 => ~ec2'.show_resize_dialog]_vars


\* The instance list of ec2-tui with its filter.  A behaviour starts with the
\* two instances loaded and the filter prompt just opened by 'f'.  The
\* characters typed into the filter are a letter of the first instance only,
\* a letter of the second instance only, the pattern that matches every
\* text, and a letter of neither instance.
InitInstances ==
    /\ prog = "ec2-tui"
    /\ quit = FALSE
    /\ panicked = FALSE
    /\ \E m \in {ec2_iterate_key(Continue(Ec2Startup(Ec2AllOk.load)),
                                 KeyChar("f"), Ec2AllOk)} :
          /\ ec2 = m.app
          /\ ev = m.ev
    /\ key = Some(KeyChar("f"))
    /\ app = None
    /\ mgr = None

NextInstances ==
    \/ /\ prog = "ec2-tui"
       /\ ec2.show_instance_filter
       /\ \E k \in {KeyCode(c) : c \in {"Enter", "Esc", "Backspace"}}
                  \cup {KeyChar(c) : c \in {"w", "q", ".", "x"}} :
              Ec2Step(k)
    \/ /\ prog = "ec2-tui"
       /\ ~ec2.show_instance_filter
       /\ \E k \in {KeyChar(c) : c \in {"f", "j", "k", "r"}}
                  \cup {KeyCode("Down"), KeyCode("Up"), KeyCtrl("x")} :
              Ec2Step(k)

SpecInstances == InitInstances /\ [][NextInstances]_vars

\* C40: in ec2-tui, while an instance filter is active and matches at least
\* one instance, after every change of the filter text, every reload of the
\* instances and every navigation key of the instance list the table
\* selection is a position of the sequence of matching instances, and
\* get_actual_instance_index resolves it to one of them.
C40_SelectionIsFilteredPosition ==
    [][(/\ prog = "ec2-tui"
        /\ is_filter_active(ec2')
        /\ Len(ec2'.filtered_instance_indices) > 0
        /\ \/ ec2'.instance_filter # ec2.instance_filter
           \/ Issued("load_instances")'
           \/ /\ ~ec2.show_instance_filter
              /\ key' \in {Some(KeyChar("j")), Some(KeyChar("k")),
                           Some(KeyCode("Down")), Some(KeyCode("Up"))})
          => /\ IsSome(ec2'.table_state)
             /\ Unwrap(ec2'.table_state)
                    \in 0..(Len(ec2'.filtered_instance_indices) - 1)
             /\ IsSome(get_actual_instance_index(ec2'))
             /\ \E i \in 1..Len(ec2'.filtered_instance_indices) :
                    ec2'.filtered_instance_indices[i]
                        = Unwrap(get_actual_instance_index(ec2'))]_vars

=============================================================================
